---- MODULE Spec2Model ----
(***************************************************************************)
(* A model of the lit-gpt adapter utilities:                               *)
(*   - scripts/merge_lora.py      (SpecMerge)                              *)
(*   - finetune/adapter.py train  (SpecTrain, with xla/finetune/adapter.py)*)
(*   - finetune/adapter.py get_batch, get_longest_seq_length (SpecBatch)   *)
(*   - finetune/adapter.py setup  (SpecSetup)                              *)
(* Each specification runs one of the programs and holds the variables of *)
(* the others at fixed values.  Python indices are 0-based and are kept    *)
(* 0-based here (data[i] of the code is data[i + 1] of the sequence).      *)
(***************************************************************************)
EXTENDS Integers, Sequences, FiniteSets, TLC

VARIABLES
    \* ---- scripts/merge_lora.py
    dir,                      \* checkpoint_dir: file name -> file content
    pretrained_arg,           \* the pretrained_checkpoint_dir argument as passed
    pretrained_checkpoint_dir,\* the local of that name (rebound at line 48)
    mpc,                      \* position of the running merge_lora call
    state_dict,               \* the local state_dict of line 67
    outcome,                  \* how the last merge_lora call ended
    pre_dir,                  \* history: dir when the current call started
    hparams_read,             \* history: the call opened hyperparameters.yaml
    completed,                \* history: some call ran to line 73
    merged_before,            \* history: completed held when the call started
    first_merged,             \* history: dir right after the first merge
    runs,                     \* number of calls made so far
    \* ---- finetune/adapter.py and xla/finetune/adapter.py: train
    trainer,                  \* "standard" or "xla": which of the two files runs
    devices,                  \* device count
    train_args,               \* TrainArgs (the module constants in the xla file)
    eval_interval,            \* eval_args.interval / eval_interval
    tpc,                      \* position of the process in main / train
    iter_num,                 \* the loop variable of train
    step_count,               \* optimizer steps made
    is_accumulating,          \* the local of that name
    kth,                      \* history: number of iterations started
    order,                    \* history: what the current iteration did, in order
    val_steps,                \* history: step_count at each in-loop validation
    written,                  \* history: checkpoint files written, in order
    opt_steps,                \* history: optimizer.step() calls
    sched_steps,              \* history: scheduler.step() calls
    training,                 \* model.training: TRUE in training mode, FALSE in eval mode
    kv_cache,                 \* is the key/value inference cache of the model allocated
    grads,                    \* the gradients: the backward passes added since they were zero
    applied,                  \* history: the gradients each optimizer.step() was applied to
    val_return,               \* where the running validate was called from
    \* ---- finetune/adapter.py: get_batch, get_longest_seq_length
    data,                     \* the example collection: [input_ids, labels] records
    micro_batch_size,         \* the micro_batch_size argument of get_batch
    max_seq_length,           \* the max_seq_length argument of get_batch (or None)
    longest_seq_length,       \* first result of get_longest_seq_length(data)
    longest_seq_ix,           \* second result of get_longest_seq_length(data)
    ix,                       \* the indices drawn by the last get_batch call
    x,                        \* the input rows returned by the last get_batch call
    y,                        \* the label rows returned by the last get_batch call
    bpc,                      \* "init", "ready" (lengths known), "batch" (x, y set)
    \* ---- finetune/adapter.py: setup and the start of main
    setup_args,               \* the arguments of setup that the checks read
    bf16_supported,           \* the hardware: does the device support bfloat16
    checkpoint_dir_valid,     \* the disk: is checkpoint_dir a valid checkpoint dir
    precision,                \* the local precision of setup
    plugins,                  \* the local plugins of setup
    strategy,                 \* the local strategy of setup
    spc,                      \* position of the process in setup / main
    setup_error,              \* the exception setup or main ended in, if any
    done,                     \* history: the effects made so far
    loaded,                   \* history: the two checkpoints and the model's parameters
                              \* after model.load_state_dict (merge_lora.py, line 63)
    \* ---- generate_adapter.py: main
    pretrained_dir_valid,     \* the disk: is pretrained_dir a valid checkpoint dir
    pretrained_checkpoint,    \* the content of pretrained_dir / "lit_model.pth"
    adapter_checkpoint,       \* the content of the file at adapter_path
    model,                    \* the parameters of the model: name -> value
    output,                   \* the local output (decoded text, then the response)
    decoded,                  \* history: what tokenizer.decode returned
    gpc,                      \* position of the process in main
    gen_error,                \* the exception main ended in, if any
    stdout,                   \* what main printed to standard output
    stderr,                   \* what main printed to standard error
    \* ---- lit_parrot/adapter_v2.py
    v2_state_dict,            \* the mapping passed: name -> value
    v2_passed,                \* history: the mapping as it was when passed
    v2_returned,              \* what adapter_v2_state_from_state_dict returned
    v2_requires_grad,         \* requires_grad of each parameter: name -> BOOLEAN
    v2_called,                \* history: the functions called so far
    \* ---- finetune/adapter.py: the processes of a multi-device run (one per rank)
    ppc,                      \* rank -> position of the process in train
    p_iter_num,               \* rank -> iter_num
    p_step_count,             \* rank -> step_count
    p_is_accumulating,        \* rank -> is_accumulating
    p_log,                    \* history: rank -> the validations, barrier calls and saves
    \* ---- finetune/adapter.py and xla/finetune/adapter.py: the batches of a run
    f_trainer,                \* "standard" or "xla"
    train_data,               \* the training examples
    val_data,                 \* the validation examples
    f_micro_batch_size,       \* train_args.micro_batch_size / micro_batch_size
    f_max_seq_length,         \* data_args.max_seq_length (or None)
    f_G,                      \* gradient_accumulation_iters
    f_eval_interval,          \* eval_args.interval / eval_interval
    f_eval_iters,             \* eval_args.max_iters / eval_iters
    f_longest_seq_length,     \* the local longest_seq_length of train
    f_longest_seq_ix,         \* the local longest_seq_ix of train
    model_max_seq_length,     \* model.max_seq_length (xla: the local max_seq_length)
    fpc,                      \* position of the process in train / validate
    f_iter_num,               \* iter_num
    f_kth,                    \* history: number of iterations started
    f_step_count,             \* step_count
    val_k,                    \* the loop variable k of validate
    val_iters,                \* the max_iters of the running validate
    f_source,                 \* history: the collection of the last batch: "train" / "val"
    f_forced,                 \* history: the longest_seq_ix argument of the last get_batch
    f_ix,                     \* the indices of the last batch
    f_x,                      \* the input rows of the last batch
    f_y,                      \* the label rows of the last batch
    first_len,                \* history: row length of the first training batch
    f_error                   \* the exception the run ended in, if any

mergeVars == <<dir, pretrained_arg, pretrained_checkpoint_dir, mpc, state_dict,
               outcome, pre_dir, hparams_read, completed, merged_before,
               first_merged, runs, loaded>>

trainVars == <<trainer, devices, train_args, eval_interval, tpc, iter_num, step_count,
               is_accumulating, kth, order, val_steps, written, opt_steps, sched_steps,
               training, kv_cache, grads, applied, val_return>>

batchVars == <<data, micro_batch_size, max_seq_length, longest_seq_length,
               longest_seq_ix, ix, x, y, bpc>>

setupVars == <<setup_args, bf16_supported, checkpoint_dir_valid, precision, plugins,
               strategy, spc, setup_error, done>>

genVars == <<pretrained_dir_valid, pretrained_checkpoint, adapter_checkpoint, model, output, decoded, gpc,
             gen_error, stdout, stderr>>

procVars == <<ppc, p_iter_num, p_step_count, p_is_accumulating, p_log>>

feedVars == <<f_trainer, train_data, val_data, f_micro_batch_size, f_max_seq_length, f_G,
              f_eval_interval, f_eval_iters, f_longest_seq_length, f_longest_seq_ix,
              model_max_seq_length, fpc, f_iter_num, f_kth, f_step_count, val_k, val_iters,
              f_source, f_forced, f_ix, f_x, f_y, first_len, f_error>>

v2Vars == <<v2_state_dict, v2_passed, v2_returned, v2_requires_grad, v2_called>>

vars == <<mergeVars, trainVars, batchVars, setupVars, genVars, v2Vars, procVars, feedVars>>

notMerge == <<trainVars, batchVars, setupVars, genVars, v2Vars, procVars, feedVars>>
notTrain == <<mergeVars, batchVars, setupVars, genVars, v2Vars, procVars, feedVars>>
notBatch == <<mergeVars, trainVars, setupVars, genVars, v2Vars, procVars, feedVars>>
notSetup == <<mergeVars, trainVars, batchVars, genVars, v2Vars, procVars, feedVars>>
notGen == <<mergeVars, trainVars, batchVars, setupVars, v2Vars, procVars, feedVars>>
notV2 == <<mergeVars, trainVars, batchVars, setupVars, genVars, procVars, feedVars>>
notProc == <<mergeVars, trainVars, batchVars, setupVars, genVars, v2Vars, feedVars>>
notFeed == <<mergeVars, trainVars, batchVars, setupVars, genVars, v2Vars, procVars>>

----------------------------------------------------------------------------
(* Bounds *)
MaxRuns == 3
MaxDevices == 2
MaxMicroBatch == 2
MaxAccum == 3
MaxInterval == 3
MaxEpochSize == 8
MaxIters == 8
MaxSeqLen == 3
MaxData == 2
MaxText == 3
MaxParams == 2
MaxProcs == 2
MaxProcAccum == 2
MaxProcInterval == 2
MaxProcIters == 4
MaxFeedLen == 2
MaxFeedData == 2
MaxFeedBatch == 2
MaxFeedAccum == 1
MaxFeedInterval == 1
MaxEvalIters == 1
MaxFeedIters == 2

----------------------------------------------------------------------------
(* the parts of the state a specification does not use *)

TrainIdle ==
    /\ trainer = "none"
    /\ devices = 1
    /\ train_args = << >>
    /\ eval_interval = 1
    /\ tpc = "idle"
    /\ iter_num = 0
    /\ step_count = 0
    /\ is_accumulating = FALSE
    /\ kth = 0
    /\ order = << >>
    /\ val_steps = << >>
    /\ written = << >>
    /\ opt_steps = 0
    /\ sched_steps = 0
    /\ training = TRUE
    /\ kv_cache = FALSE
    /\ grads = {}
    /\ applied = << >>
    /\ val_return = "none"

BatchIdle ==
    /\ data = << >>
    /\ micro_batch_size = 1
    /\ max_seq_length = << >>
    /\ longest_seq_length = 0
    /\ longest_seq_ix = 0
    /\ ix = << >>
    /\ x = << >>
    /\ y = << >>
    /\ bpc = "idle"

SetupIdle ==
    /\ setup_args = << >>
    /\ bf16_supported = FALSE
    /\ checkpoint_dir_valid = FALSE
    /\ precision = << >>
    /\ plugins = << >>
    /\ strategy = "none"
    /\ spc = "idle"
    /\ setup_error = "none"
    /\ done = {}

GenIdle ==
    /\ pretrained_dir_valid = FALSE
    /\ pretrained_checkpoint = << >>
    /\ adapter_checkpoint = << >>
    /\ model = << >>
    /\ output = << >>
    /\ decoded = << >>
    /\ gpc = "idle"
    /\ gen_error = "none"
    /\ stdout = << >>
    /\ stderr = << >>

V2Idle ==
    /\ v2_state_dict = << >>
    /\ v2_passed = << >>
    /\ v2_returned = << >>
    /\ v2_requires_grad = << >>
    /\ v2_called = {}

ProcIdle ==
    /\ ppc = << >>
    /\ p_iter_num = << >>
    /\ p_step_count = << >>
    /\ p_is_accumulating = << >>
    /\ p_log = << >>

FeedIdle ==
    /\ f_trainer = "none"
    /\ train_data = << >>
    /\ val_data = << >>
    /\ f_micro_batch_size = 1
    /\ f_max_seq_length = << >>
    /\ f_G = 1
    /\ f_eval_interval = 1
    /\ f_eval_iters = 1
    /\ f_longest_seq_length = 0
    /\ f_longest_seq_ix = 0
    /\ model_max_seq_length = 0
    /\ fpc = "idle"
    /\ f_iter_num = 0
    /\ f_kth = 0
    /\ f_step_count = 0
    /\ val_k = 0
    /\ val_iters = 0
    /\ f_source = "none"
    /\ f_forced = << >>
    /\ f_ix = << >>
    /\ f_x = << >>
    /\ f_y = << >>
    /\ first_len = 0
    /\ f_error = "none"

----------------------------------------------------------------------------
(* scripts/merge_lora.py *)

None == "None"
EmptyDict == << >>

\* dict.update: the right operand wins on every common key
Update(d1, d2) ==
    [k \in (DOMAIN d1) \cup (DOMAIN d2) |-> IF k \in DOMAIN d2 THEN d2[k] ELSE d1[k]]

\* parameter names are sequences of dot-separated segments
WteWeight == <<"wte", "weight">>
AttnWeight == <<"attn", "weight">>
AttnLinearWeight == <<"attn", "linear", "weight">>
AttnLoraA == <<"attn", "lora_A">>
AttnLoraB == <<"attn", "lora_B">>
ModelKey == <<"model">>

\* names of the parameters of GPT(config) built with the LoRA hyperparameters
ModelKeys == {WteWeight, AttnLinearWeight, AttnLoraA, AttnLoraB}

\* k.replace("linear.", "")
StripLinear(k) == SelectSeq(k, LAMBDA s : s # "linear")

\* lora_filter(k, v): "lora_" in k
LoraSegments == {"lora_A", "lora_B"}
lora_filter(k) == \E i \in 1..Len(k) : k[i] \in LoraSegments

\* the base checkpoints on disk, by directory
PretrainedDirs == {"base_ok", "base_alt", "base_moved"}
PretrainedFiles(p) ==
    CASE p = "base_ok" -> {"lit_model.pth", "lit_config.json"}
      [] p = "base_alt" -> {"lit_model.pth", "lit_config.json"}
      [] OTHER -> {}
PretrainedWeights(p) ==
    IF p = "base_alt"
    THEN (WteWeight :> 5) @@ (AttnWeight :> 4)
    ELSE (WteWeight :> 3) @@ (AttnWeight :> 2)

\* LoRA checkpoints as finetune/lora.py leaves them: the LoRA factors, with or
\* without further parameters, bare or under the "model" key
LoraValues == 0..1
LoraStateDicts ==
    { (AttnLoraA :> a) @@ (AttnLoraB :> b) : a \in LoraValues, b \in LoraValues }
    \cup { (AttnLoraA :> a) @@ (AttnLoraB :> 1) @@ (WteWeight :> 7) : a \in LoraValues }
LoraCheckpoints == LoraStateDicts \cup { (ModelKey :> sd) : sd \in LoraStateDicts }

HparamsFiles == { [checkpoint_dir |-> p] : p \in PretrainedDirs }

\* check_valid_checkpoint_dir of a LoRA checkpoint directory
CheckValidCheckpointDir(d) == {"lit_model.pth", "lit_config.json"} \subseteq DOMAIN d
\* check_valid_checkpoint_dir of a base checkpoint directory
CheckValidPretrainedDir(p) == {"lit_model.pth", "lit_config.json"} \subseteq PretrainedFiles(p)

\* (checkpoint_dir / "lit_model.pth.lora").is_file()
AlreadyMergedNever(d) == FALSE
AlreadyMerged(d) == "lit_model.pth.lora" \in DOMAIN d

\* load_lora_metadata: hparams_file.is_file()
HparamsIsFile(d) == "hyperparameters.yaml" \in DOMAIN d

\* lora_checkpoint.get("model", lora_checkpoint)
GetModel(ckpt) == IF ModelKey \in DOMAIN ckpt THEN ckpt[ModelKey] ELSE ckpt

\* model.load_state_dict: a base name "x.weight" loads into "x.linear.weight"
LoadStateDict(sd) ==
    [k \in ModelKeys |->
        IF k \in DOMAIN sd THEN sd[k]
        ELSE IF StripLinear(k) \in DOMAIN sd THEN sd[StripLinear(k)]
        ELSE 0]

\* merge_lora_weights: W <- W + B * A on every LoRA linear layer
MergeLoraWeights(m) ==
    [m EXCEPT ![AttnLinearWeight] = m[AttnLinearWeight] + m[AttnLoraB] * m[AttnLoraA]]

\* line 67: {k.replace("linear.", ""): v for k, v in ... if not lora_filter(k, v)}
FilteredStateDictUnfiltered(m) ==
    [k2 \in { StripLinear(k) : k \in DOMAIN m } |->
        m[CHOOSE k \in DOMAIN m : StripLinear(k) = k2]]
FilteredStateDict(m) ==
    LET kept == { k \in DOMAIN m : ~lora_filter(k) } IN
    [k2 \in { StripLinear(k) : k \in kept } |->
        m[CHOOSE k \in kept : StripLinear(k) = k2]]

\* lines 57-67
MergedStateDict(pretrained, lora_checkpoint) ==
    FilteredStateDict(MergeLoraWeights(LoadStateDict(Update(pretrained, GetModel(lora_checkpoint)))))

\* lines 58-63: the checkpoints read and the parameters of the model once loaded
LoadedModel(pretrained, lora_checkpoint) ==
    [base |-> pretrained,
     overlay |-> GetModel(lora_checkpoint),
     model |-> LoadStateDict(Update(pretrained, GetModel(lora_checkpoint)))]

\* torch.save(obj, path)
Save(d, name, content) ==
    [f \in (DOMAIN d) \cup {name} |-> IF f = name THEN content ELSE d[f]]
\* shutil.move(src, dst): a rename, replacing dst
Move(d, src, dst) ==
    [f \in ((DOMAIN d) \ {src}) \cup {dst} |-> IF f = dst THEN d[src] ELSE d[f]]

InitialDirs ==
    LET Opt(name, contents) == {EmptyDict} \cup { (name :> c) : c \in contents } IN
    { w @@ c @@ h @@ l :
        w \in Opt("lit_model.pth", LoraCheckpoints),
        c \in Opt("lit_config.json", {EmptyDict}),
        h \in Opt("hyperparameters.yaml", HparamsFiles),
        l \in Opt("lit_model.pth.lora", {(AttnLoraA :> 1) @@ (AttnLoraB :> 1)}) }

MergeIdle ==
    /\ dir = EmptyDict
    /\ pretrained_arg = None
    /\ pretrained_checkpoint_dir = None
    /\ mpc = "idle"
    /\ state_dict = EmptyDict
    /\ outcome = "none"
    /\ pre_dir = EmptyDict
    /\ hparams_read = FALSE
    /\ completed = FALSE
    /\ merged_before = FALSE
    /\ first_merged = EmptyDict
    /\ runs = 0
    /\ loaded = EmptyDict

InitMerge ==
    /\ FeedIdle
    /\ ProcIdle
    /\ V2Idle
    /\ GenIdle
    /\ TrainIdle
    /\ BatchIdle
    /\ SetupIdle
    /\ dir \in InitialDirs
    /\ pretrained_arg = None
    /\ pretrained_checkpoint_dir = None
    /\ mpc = "idle"
    /\ state_dict = EmptyDict
    /\ outcome = "none"
    /\ pre_dir = dir
    /\ hparams_read = FALSE
    /\ completed = FALSE
    /\ merged_before = FALSE
    /\ first_merged = EmptyDict
    /\ runs = 0
    /\ loaded = EmptyDict

\* the operator runs merge_lora(checkpoint_dir, pretrained_checkpoint_dir = p)
MergeCall ==
    /\ UNCHANGED notMerge
    /\ UNCHANGED loaded
    /\ mpc = "idle"
    /\ runs < MaxRuns
    /\ \E p \in PretrainedDirs \cup {None} :
        /\ pretrained_arg' = p
        /\ pretrained_checkpoint_dir' = p
    /\ mpc' = "validate"
    /\ outcome' = "running"
    /\ pre_dir' = dir
    /\ hparams_read' = FALSE
    /\ merged_before' = completed
    /\ runs' = runs + 1
    /\ state_dict' = EmptyDict
    /\ UNCHANGED <<dir, completed, first_merged>>

\* what a merge_lora call that ends leaves behind
MergeEnd(how) ==
    /\ mpc' = "idle"
    /\ outcome' = how

\* lines 41-48 and line 81: the checks made before anything is loaded, in order
ValidateOutcomeNoPretrainedCheck(d, p) ==
    IF ~CheckValidCheckpointDir(d) THEN "invalid_checkpoint_dir"
    ELSE IF AlreadyMerged(d) THEN "already_merged"
    ELSE IF ~HparamsIsFile(d) THEN "hparams_missing"
    ELSE "ok"
ValidateOutcome(d, p) ==
    IF ~CheckValidCheckpointDir(d) THEN "invalid_checkpoint_dir"
    ELSE IF p # None /\ ~CheckValidPretrainedDir(p) THEN "invalid_pretrained_dir"
    ELSE IF AlreadyMerged(d) THEN "already_merged"
    ELSE IF ~HparamsIsFile(d) THEN "hparams_missing"
    ELSE "ok"

\* lines 41-49 with load_lora_metadata (lines 79-90)
MergeValidate ==
    /\ UNCHANGED notMerge
    /\ UNCHANGED loaded
    /\ mpc = "validate"
    /\ UNCHANGED <<dir, pretrained_arg, state_dict, pre_dir, completed,
                   merged_before, first_merged, runs>>
    /\ LET v == ValidateOutcome(dir, pretrained_checkpoint_dir) IN
       IF v # "ok"
       THEN /\ MergeEnd(v)
            /\ UNCHANGED <<pretrained_checkpoint_dir, hparams_read>>
       ELSE /\ hparams_read' = TRUE
            /\ pretrained_checkpoint_dir' = dir["hyperparameters.yaml"].checkpoint_dir
            /\ mpc' = "build"
            /\ UNCHANGED outcome

\* lines 51-67: the model is built, both checkpoints are loaded and merged
MergeBuild ==
    /\ UNCHANGED notMerge
    /\ mpc = "build"
    /\ UNCHANGED <<dir, pretrained_arg, pretrained_checkpoint_dir, pre_dir, hparams_read,
                   completed, merged_before, first_merged, runs>>
    /\ \/ /\ "lit_model.pth" \notin PretrainedFiles(pretrained_checkpoint_dir)
          /\ MergeEnd("pretrained_weights_missing")
          /\ UNCHANGED <<state_dict, loaded>>
       \/ /\ "lit_model.pth" \in PretrainedFiles(pretrained_checkpoint_dir)
          /\ state_dict' = MergedStateDict(PretrainedWeights(pretrained_checkpoint_dir),
                                           dir["lit_model.pth"])
          /\ loaded' = LoadedModel(PretrainedWeights(pretrained_checkpoint_dir),
                                   dir["lit_model.pth"])
          /\ mpc' = "save"
          /\ UNCHANGED outcome

\* lines 68-69: torch.save(state_dict, checkpoint_dir / "lit_model.pth.merged")
MergeSave ==
    /\ UNCHANGED notMerge
    /\ UNCHANGED loaded
    /\ mpc = "save"
    /\ dir' = Save(dir, "lit_model.pth.merged", state_dict)
    /\ mpc' = "backup"
    /\ UNCHANGED <<pretrained_arg, pretrained_checkpoint_dir, state_dict, outcome, pre_dir,
                   hparams_read, completed, merged_before, first_merged, runs>>

\* line 72: shutil.move(lit_model.pth, lit_model.pth.lora)
MergeBackup ==
    /\ UNCHANGED notMerge
    /\ UNCHANGED loaded
    /\ mpc = "backup"
    /\ dir' = Move(dir, "lit_model.pth", "lit_model.pth.lora")
    /\ mpc' = "install"
    /\ UNCHANGED <<pretrained_arg, pretrained_checkpoint_dir, state_dict, outcome, pre_dir,
                   hparams_read, completed, merged_before, first_merged, runs>>

\* lines 73-76: shutil.move(lit_model.pth.merged, lit_model.pth), then the reports
MergeInstall ==
    /\ UNCHANGED notMerge
    /\ UNCHANGED loaded
    /\ mpc = "install"
    /\ dir' = Move(dir, "lit_model.pth.merged", "lit_model.pth")
    /\ MergeEnd("merged")
    /\ completed' = TRUE
    /\ first_merged' = IF completed THEN first_merged ELSE dir'
    /\ UNCHANGED <<pretrained_arg, pretrained_checkpoint_dir, state_dict, pre_dir,
                   hparams_read, merged_before, runs>>

\* the process is killed between two steps of the call
MergeCrash ==
    /\ UNCHANGED notMerge
    /\ UNCHANGED loaded
    /\ mpc \notin {"idle"}
    /\ MergeEnd("crashed")
    /\ UNCHANGED <<dir, pretrained_arg, pretrained_checkpoint_dir, state_dict, pre_dir,
                   hparams_read, completed, merged_before, first_merged, runs>>

NextMerge ==
    \/ MergeCall
    \/ MergeValidate
    \/ MergeBuild
    \/ MergeSave
    \/ MergeBackup
    \/ MergeInstall
    \/ MergeCrash

SpecMerge == InitMerge /\ [][NextMerge]_vars

----------------------------------------------------------------------------
(* Claims about scripts/merge_lora.py, checked under SpecMerge *)

MergeErrors == {"invalid_checkpoint_dir", "invalid_pretrained_dir", "hparams_missing"}
Returned == mpc = "idle" /\ runs > 0 /\ outcome # "crashed"

\* C1: at every point of a merge_lora call on a valid LoRA checkpoint directory,
\* the directory holds a weights file at the canonical path lit_model.pth.
C1_CanonicalWeightsAlwaysPresent ==
    (mpc # "idle" /\ CheckValidCheckpointDir(pre_dir)) => "lit_model.pth" \in DOMAIN dir

\* C2 as stated: every call made after a merge has completed detects the sentinel
\* and returns as a no-op, nothing read and nothing written.
C2_EveryLaterCallDetectsSentinel ==
    (merged_before /\ Returned) =>
        /\ outcome = "already_merged"
        /\ ~hparams_read
        /\ dir = first_merged

\* C2 amended: every call made after a merge has completed leaves the directory
\* as the first merge left it and never opens hyperparameters.yaml; it returns as
\* a reported no-op, unless an explicitly given pretrained directory is invalid,
\* in which case it ends in the invalid-checkpoint-directory error.
C2_LaterCallsChangeNothing ==
    merged_before =>
        /\ ~hparams_read
        /\ mpc \in {"idle", "validate"}
        /\ dir = pre_dir
        /\ dir = first_merged
        /\ Returned =>
            \/ outcome = "already_merged"
            \/ /\ outcome = "invalid_pretrained_dir"
               /\ pretrained_arg # None
               /\ ~CheckValidPretrainedDir(pretrained_arg)

C2_Witness ==
    /\ merged_before
    /\ Returned
    /\ outcome = "already_merged"
    /\ runs = MaxRuns
    /\ first_merged["lit_model.pth"][AttnWeight] = 3

\* C3: a call on a directory without weights or configuration file, or with an
\* invalid explicit pretrained directory, or on a not-yet-merged directory
\* without hyperparameters.yaml, ends in an error and the directory is, at every
\* point of the call and after it, what it was before the call.
C3_ErrorsBeforeAnyMutation ==
    /\ (runs > 0 /\ outcome \in MergeErrors) => dir = pre_dir
    /\ ( /\ runs > 0
         /\ \/ ~CheckValidCheckpointDir(pre_dir)
            \/ pretrained_arg # None /\ ~CheckValidPretrainedDir(pretrained_arg)
            \/ ~AlreadyMerged(pre_dir) /\ ~HparamsIsFile(pre_dir) )
       => /\ dir = pre_dir
          /\ mpc \in {"idle", "validate"}
          /\ Returned => outcome \in MergeErrors

C3_Witness ==
    /\ Returned
    /\ outcome = "invalid_pretrained_dir"
    /\ ~AlreadyMerged(pre_dir)
    /\ HparamsIsFile(pre_dir)
    /\ dir = pre_dir

\* C4: after a successful merge the directory holds lit_model.pth with the merged
\* state dictionary (no LoRA names, no "linear" segment), lit_model.pth.lora equal
\* to the lit_model.pth from before the call, and no lit_model.pth.merged.
C4_MergedDirectory ==
    (Returned /\ outcome = "merged") =>
        /\ {"lit_model.pth", "lit_model.pth.lora"} \subseteq DOMAIN dir
        /\ "lit_model.pth.merged" \notin DOMAIN dir
        /\ dir["lit_model.pth.lora"] = pre_dir["lit_model.pth"]
        /\ \A f \in DOMAIN pre_dir \ {"lit_model.pth", "lit_model.pth.lora", "lit_model.pth.merged"} :
               f \in DOMAIN dir /\ dir[f] = pre_dir[f]
        /\ LET merged == dir["lit_model.pth"]
               lora == GetModel(pre_dir["lit_model.pth"])
               base == PretrainedWeights(pretrained_checkpoint_dir)
           IN /\ DOMAIN merged = {WteWeight, AttnWeight}
              /\ \A k \in DOMAIN merged : \A i \in 1..Len(k) :
                     k[i] # "linear" /\ k[i] \notin LoraSegments
              /\ merged[AttnWeight] = base[AttnWeight] + lora[AttnLoraB] * lora[AttnLoraA]
              /\ merged[WteWeight] =
                     IF WteWeight \in DOMAIN lora THEN lora[WteWeight] ELSE base[WteWeight]

C4_Witness ==
    /\ Returned
    /\ outcome = "merged"
    /\ "lit_model.pth.merged" \notin DOMAIN dir
    /\ dir["lit_model.pth"][AttnWeight] = 3
    /\ ModelKey \in DOMAIN dir["lit_model.pth.lora"]

----------------------------------------------------------------------------
(* finetune/adapter.py (trainer = "standard") and xla/finetune/adapter.py     *)
(* (trainer = "xla"): main and train                                          *)

Min(a, b) == IF a < b THEN a ELSE b

\* the module constants of xla/finetune/adapter.py
xla_eval_interval == 200
xla_save_interval == 200
xla_batch_size == 1
xla_micro_batch_size == 1
xla_epoch_size == 50000
xla_num_epochs == 5
\* gradient_accumulation_iters = batch_size // micro_batch_size
xla_gradient_accumulation_iters == xla_batch_size \div xla_micro_batch_size
\* max_iters = num_epochs * (epoch_size // micro_batch_size) // devices
xla_max_iters(d) == (xla_num_epochs * (xla_epoch_size \div xla_micro_batch_size)) \div d

\* TrainArgs.gradient_accumulation_iters(devices)
GradientAccumulationIters(args, d) ==
    args.global_batch_size \div (args.micro_batch_size * d)
\* TrainArgs.max_iters(devices)
TrainArgsMaxIters(args, d) ==
    ((args.epochs * args.epoch_size) \div d) \div args.micro_batch_size

\* the accumulation count and the iteration budget of the running trainer
G == IF trainer = "xla" THEN xla_gradient_accumulation_iters
     ELSE GradientAccumulationIters(train_args, devices)
max_iters == IF trainer = "xla" THEN xla_max_iters(devices)
             ELSE TrainArgsMaxIters(train_args, devices)
save_interval == IF trainer = "xla" THEN xla_save_interval ELSE train_args.save_interval

\* the k-th value of range(1, max_iters + 1), resp. of range(max_iters)
RangeValue(t, k) == IF t = "xla" THEN k - 1 ELSE k

\* is_accumulating: iter_num % G != 0, resp. (iter_num + 1) % G != 0
IsAccumulatingShifted(t, i, g) == (i + 1) % g # 0
IsAccumulating(t, i, g) == IF t = "xla" THEN (i + 1) % g # 0 ELSE i % g # 0

\* not is_accumulating and step_count % eval_args.interval == 0
EvalDueEveryIteration(acc, sc, e) == sc % e = 0
EvalDue(acc, sc, e) == ~acc /\ sc % e = 0

\* not is_accumulating and step_count % train_args.save_interval == 0
SaveDueEveryIteration(acc, sc, e) == sc % e = 0
SaveDue(acc, sc, e) == ~acc /\ sc % e = 0

\* the decimal digits of n, most significant first
RECURSIVE Digits(_)
Digits(n) == IF n < 10 THEN <<n>> ELSE Append(Digits(n \div 10), n % 10)
\* f"{n:06d}": zero-padded on the left to at least six digits
Format06d(n) ==
    LET ds == Digits(n) IN
    IF Len(ds) >= 6 THEN ds
    ELSE [i \in 1..6 |-> IF i <= 6 - Len(ds) THEN 0 ELSE ds[i - (6 - Len(ds))]]
\* out_dir / f"iter-{iter_num:06d}-ckpt.pth"
CheckpointPath(n) == [name |-> "iter-ckpt.pth", digits |-> Format06d(n)]
\* out_dir / "lit_model_adapter_finetuned.pth"
FinalPath == [name |-> "lit_model_adapter_finetuned.pth", digits |-> << >>]

\* the configurations TrainArgs accepts (max_iters asserts max_iters > 0)
StandardConfigs ==
    LET all == { [devices |-> d,
                  eval_interval |-> e,
                  train_args |-> [global_batch_size |-> g * m * d, micro_batch_size |-> m,
                                  save_interval |-> sv, epochs |-> 1, epoch_size |-> n]] :
                   d \in 1..MaxDevices, e \in 1..MaxInterval, g \in 1..MaxAccum,
                   m \in 1..MaxMicroBatch, sv \in 1..MaxInterval, n \in 1..MaxEpochSize }
    IN { c \in all : TrainArgsMaxIters(c.train_args, c.devices) >= 1 }

XlaConfigs ==
    { [devices |-> d,
       eval_interval |-> xla_eval_interval,
       train_args |-> [global_batch_size |-> xla_batch_size * d,
                       micro_batch_size |-> xla_micro_batch_size,
                       save_interval |-> xla_save_interval,
                       epochs |-> xla_num_epochs, epoch_size |-> xla_epoch_size]] :
        d \in 1..MaxDevices }

InitTrain ==
    /\ FeedIdle
    /\ ProcIdle
    /\ V2Idle
    /\ GenIdle
    /\ MergeIdle
    /\ BatchIdle
    /\ SetupIdle
    /\ trainer \in {"standard", "xla"}
    /\ \E c \in (IF trainer = "xla" THEN XlaConfigs ELSE StandardConfigs) :
        /\ devices = c.devices
        /\ train_args = c.train_args
        /\ eval_interval = c.eval_interval
    /\ tpc = "main"
    /\ iter_num = 0
    /\ step_count = 0
    /\ is_accumulating = FALSE
    /\ kth = 0
    /\ order = << >>
    /\ val_steps = << >>
    /\ written = << >>
    /\ opt_steps = 0
    /\ sched_steps = 0
    /\ training = TRUE
    /\ kv_cache = FALSE
    /\ grads = {}
    /\ applied = << >>
    /\ val_return = "none"

\* model.train(): the model is in training mode
model_train_noop(mode) == mode
model_train(mode) == TRUE

\* model.eval(): the model is in eval mode
model_eval(mode) == FALSE

\* optimizer.zero_grad(): the gradients are zero
zero_grad_noop(g) == g
zero_grad(g) == {}

\* fabric.backward(loss / G) of iteration k adds loss_k / G to the gradients
Backward(g, k, div) == g \cup {[iter |-> k, div |-> div]}

\* the positions inside validate
ValidatePcs == {"validate", "val_generate", "val_generating", "val_end"}

\* main up to the call of train, and train up to its sanity-check validate
\* (lines 181-191; the xla trainer makes none)
TrainStart ==
    /\ tpc = "main"
    /\ IF trainer = "standard"
       THEN /\ tpc' = "validate"
            /\ val_return' = "init_loop"
       ELSE /\ tpc' = "init_loop"
            /\ UNCHANGED val_return
    /\ UNCHANGED <<trainer, devices, train_args, eval_interval, iter_num, step_count,
                   is_accumulating, kth, order, val_steps, written, opt_steps, sched_steps>>
    /\ UNCHANGED <<training, kv_cache, grads, applied>>
    /\ UNCHANGED notTrain

\* lines 193-196: step_count = 0
TrainInitLoop ==
    /\ tpc = "init_loop"
    /\ step_count' = 0
    /\ tpc' = "loop"
    /\ UNCHANGED <<trainer, devices, train_args, eval_interval, iter_num, is_accumulating,
                   kth, order, val_steps, written, opt_steps, sched_steps>>
    /\ UNCHANGED <<training, kv_cache, grads, applied, val_return>>
    /\ UNCHANGED notTrain

\* validate, lines 261-268: model.eval() and the eval_args.max_iters forward
\* passes on validation batches, under torch.no_grad()
ValidateEval ==
    /\ tpc = "validate"
    /\ training' = model_eval(training)
    /\ tpc' = "val_generate"
    /\ UNCHANGED <<trainer, devices, train_args, eval_interval, iter_num, step_count,
                   is_accumulating, kth, order, val_steps, written, opt_steps, sched_steps>>
    /\ UNCHANGED <<kv_cache, grads, applied, val_return>>
    /\ UNCHANGED notTrain

\* validate, lines 270-278: model.set_kv_cache(batch_size=1) (in the xla
\* trainer generate builds the cache, line 231)
ValidateSetCache ==
    /\ tpc = "val_generate"
    /\ kv_cache' = TRUE
    /\ tpc' = "val_generating"
    /\ UNCHANGED <<trainer, devices, train_args, eval_interval, iter_num, step_count,
                   is_accumulating, kth, order, val_steps, written, opt_steps, sched_steps>>
    /\ UNCHANGED <<training, grads, applied, val_return>>
    /\ UNCHANGED notTrain

\* validate, lines 279-288: generate(...) and model.clear_kv_cache() (in the
\* xla trainer model.reset_cache(), line 237)
ValidateClearCache ==
    /\ tpc = "val_generating"
    /\ kv_cache' = FALSE
    /\ tpc' = "val_end"
    /\ UNCHANGED <<trainer, devices, train_args, eval_interval, iter_num, step_count,
                   is_accumulating, kth, order, val_steps, written, opt_steps, sched_steps>>
    /\ UNCHANGED <<training, grads, applied, val_return>>
    /\ UNCHANGED notTrain

\* validate, lines 290-291: model.train(); return val_loss. An in-loop pass
\* returns to line 242, the sanity check to line 193
ValidateReturn ==
    /\ tpc = "val_end"
    /\ training' = model_train(training)
    /\ tpc' = val_return
    /\ val_return' = "none"
    /\ IF val_return = "barrier"
       THEN /\ order' = Append(order, "validate")
            /\ val_steps' = Append(val_steps, step_count)
       ELSE UNCHANGED <<order, val_steps>>
    /\ UNCHANGED <<trainer, devices, train_args, eval_interval, iter_num, step_count,
                   is_accumulating, kth, written, opt_steps, sched_steps>>
    /\ UNCHANGED <<kv_cache, grads, applied>>
    /\ UNCHANGED notTrain

\* for iter_num in range(...): the next iteration starts, or the loop ends
LoopHead ==
    /\ tpc = "loop"
    /\ IF kth < Min(max_iters, MaxIters)
       THEN /\ kth' = kth + 1
            /\ iter_num' = RangeValue(trainer, kth + 1)
            /\ order' = << >>
            /\ tpc' = "forward"
       ELSE /\ tpc' = "final"
            /\ UNCHANGED <<kth, iter_num, order>>
    /\ UNCHANGED <<trainer, devices, train_args, eval_interval, step_count, is_accumulating,
                   val_steps, written, opt_steps, sched_steps>>
    /\ UNCHANGED <<training, kv_cache, grads, applied, val_return>>
    /\ UNCHANGED notTrain

\* get_batch, is_accumulating, and forward and backward under no_backward_sync
IterForwardBackward ==
    /\ tpc = "forward"
    /\ is_accumulating' = IsAccumulating(trainer, iter_num, G)
    /\ order' = Append(order, IF is_accumulating' THEN "backward" ELSE "backward_sync")
    /\ grads' = Backward(grads, kth, G)
    /\ tpc' = "step"
    /\ UNCHANGED <<trainer, devices, train_args, eval_interval, iter_num, step_count,
                   kth, val_steps, written, opt_steps, sched_steps>>
    /\ UNCHANGED <<training, kv_cache, applied, val_return>>
    /\ UNCHANGED notTrain

\* if not is_accumulating: optimizer.step(); zero_grad(); scheduler.step(); step_count += 1
IterStep ==
    /\ tpc = "step"
    /\ IF ~is_accumulating
       THEN /\ opt_steps' = opt_steps + 1
            /\ sched_steps' = IF trainer = "standard" THEN sched_steps + 1 ELSE sched_steps
            /\ order' = order \o (IF trainer = "standard"
                                  THEN <<"optimizer.step", "scheduler.step">>
                                  ELSE <<"optimizer.step">>)
            /\ applied' = Append(applied, grads)
            /\ grads' = zero_grad(grads)
            /\ step_count' = step_count + 1
       ELSE UNCHANGED <<opt_steps, sched_steps, order, step_count, applied, grads>>
    /\ tpc' = "eval"
    /\ UNCHANGED <<trainer, devices, train_args, eval_interval, iter_num, is_accumulating,
                   kth, val_steps, written>>
    /\ UNCHANGED <<training, kv_cache, val_return>>
    /\ UNCHANGED notTrain

\* if not is_accumulating and step_count % eval_interval == 0: validate(...) is
\* called; order and val_steps record the pass when it returns
IterValidate ==
    /\ tpc = "eval"
    /\ IF EvalDue(is_accumulating, step_count, eval_interval)
       THEN /\ tpc' = "validate"
            /\ val_return' = "barrier"
       ELSE /\ tpc' = "save"
            /\ UNCHANGED val_return
    /\ UNCHANGED <<trainer, devices, train_args, eval_interval, iter_num, step_count,
                   is_accumulating, kth, order, val_steps, written, opt_steps, sched_steps>>
    /\ UNCHANGED <<training, kv_cache, grads, applied>>
    /\ UNCHANGED notTrain

\* fabric.barrier() after the validation pass
IterBarrier ==
    /\ tpc = "barrier"
    /\ order' = Append(order, "barrier")
    /\ tpc' = "save"
    /\ UNCHANGED <<trainer, devices, train_args, eval_interval, iter_num, step_count,
                   is_accumulating, kth, val_steps, written, opt_steps, sched_steps>>
    /\ UNCHANGED <<training, kv_cache, grads, applied, val_return>>
    /\ UNCHANGED notTrain

\* if not is_accumulating and step_count % save_interval == 0: save_adapter_checkpoint
IterSave ==
    /\ tpc = "save"
    /\ IF SaveDue(is_accumulating, step_count, save_interval)
       THEN /\ order' = Append(order, "save")
            /\ written' = Append(written, [path |-> CheckpointPath(iter_num), kth |-> kth])
       ELSE UNCHANGED <<order, written>>
    /\ tpc' = "loop"
    /\ UNCHANGED <<trainer, devices, train_args, eval_interval, iter_num, step_count,
                   is_accumulating, kth, val_steps, opt_steps, sched_steps>>
    /\ UNCHANGED <<training, kv_cache, grads, applied, val_return>>
    /\ UNCHANGED notTrain

\* main after train: the final checkpoint
FinalSave ==
    /\ tpc = "final"
    /\ written' = Append(written, [path |-> FinalPath, kth |-> kth])
    /\ tpc' = "done"
    /\ UNCHANGED <<trainer, devices, train_args, eval_interval, iter_num, step_count,
                   is_accumulating, kth, order, val_steps, opt_steps, sched_steps>>
    /\ UNCHANGED <<training, kv_cache, grads, applied, val_return>>
    /\ UNCHANGED notTrain

NextTrain ==
    \/ TrainStart
    \/ TrainInitLoop
    \/ ValidateEval
    \/ ValidateSetCache
    \/ ValidateClearCache
    \/ ValidateReturn
    \/ LoopHead
    \/ IterForwardBackward
    \/ IterStep
    \/ IterValidate
    \/ IterBarrier
    \/ IterSave
    \/ FinalSave

SpecTrain == InitTrain /\ [][NextTrain]_vars

----------------------------------------------------------------------------
(* Claims about the training loops, checked under SpecTrain *)

\* how often the current iteration did e
Count(e) == Cardinality({ i \in 1..Len(order) : order[i] = e })
\* the kth iteration has run to its end
IterationDone == kth >= 1 /\ tpc = "loop"
\* the kth iteration is past its forward/backward pass
PastBackward == kth >= 1 /\ tpc \in {"step", "eval", "barrier", "save", "loop"} \cup ValidatePcs

\* C5: the k-th iteration is accumulating iff k mod G # 0; an accumulating
\* iteration makes no optimizer step, no schedule step and no gradient sync, any
\* other makes exactly one optimizer step (and one schedule step in the standard
\* trainer); after k iterations step_count = floor(k / G); in the xla trainer
\* G = 1 and every iteration makes an optimizer step.
C5_AccumulationSchedule ==
    /\ PastBackward => (is_accumulating <=> (kth % G # 0))
    /\ IterationDone =>
        /\ step_count = kth \div G
        /\ opt_steps = step_count
        /\ sched_steps = (IF trainer = "standard" THEN step_count ELSE 0)
        /\ IF kth % G # 0
           THEN /\ Count("optimizer.step") = 0
                /\ Count("scheduler.step") = 0
                /\ Count("backward_sync") = 0
                /\ Count("backward") = 1
           ELSE /\ Count("optimizer.step") = 1
                /\ Count("scheduler.step") = (IF trainer = "standard" THEN 1 ELSE 0)
                /\ Count("backward_sync") = 1
                /\ Count("backward") = 0
    /\ trainer = "xla" =>
        /\ G = 1
        /\ IterationDone => Count("optimizer.step") = 1

C5_Witness ==
    /\ trainer = "standard"
    /\ devices = 2
    /\ G = 3
    /\ IterationDone
    /\ kth = 4
    /\ step_count = 1
    /\ Count("optimizer.step") = 0

\* C6: in the standard trainer an in-loop validation pass runs in an iteration
\* iff that iteration made an optimizer step and step_count is then a multiple
\* of eval_interval: one pass per multiple reached, none at step_count = 0, and
\* each pass is followed by exactly one barrier, before the save of that
\* iteration and before the next iteration.
C6_ValidationCadence ==
    trainer = "standard" =>
        /\ IterationDone =>
            /\ Count("validate") =
                 (IF Count("optimizer.step") = 1 /\ step_count % eval_interval = 0 THEN 1 ELSE 0)
            /\ Count("barrier") = Count("validate")
            /\ Len(val_steps) = step_count \div eval_interval
        /\ \A i \in 1..Len(val_steps) : val_steps[i] = i * eval_interval
        /\ \A i \in 1..Len(order) :
            /\ order[i] = "validate" =>
                 (tpc # "barrier" => (i < Len(order) /\ order[i + 1] = "barrier"))
            /\ order[i] = "barrier" => (i > 1 /\ order[i - 1] = "validate")
            /\ order[i] = "save" => \A j \in 1..Len(order) : order[j] = "barrier" => j < i
        /\ tpc = "barrier" => order[Len(order)] = "validate"

C6_Witness ==
    /\ trainer = "standard"
    /\ G = 2
    /\ eval_interval = 2
    /\ IterationDone
    /\ val_steps = <<2, 4>>
    /\ order = <<"backward_sync", "optimizer.step", "scheduler.step", "validate", "barrier", "save">>

\* the number a digit sequence denotes
RECURSIVE DecimalValue(_)
DecimalValue(ds) ==
    IF Len(ds) = 0 THEN 0 ELSE 10 * DecimalValue(SubSeq(ds, 1, Len(ds) - 1)) + ds[Len(ds)]

\* C7: in the standard trainer an intermediate checkpoint is written exactly in
\* the iterations that made an optimizer step with step_count a multiple of
\* save_interval, under the name iter-{N:06d}-ckpt.pth with N the iteration
\* counter, and no path, intermediate or final, is written twice in a run.
C7_CheckpointsWrittenOnce ==
    trainer = "standard" =>
        /\ IterationDone =>
            /\ Count("save") =
                 (IF Count("optimizer.step") = 1 /\ step_count % save_interval = 0 THEN 1 ELSE 0)
            /\ Len(written) = step_count \div save_interval
        /\ \A i \in 1..Len(written) :
            \/ /\ written[i].path.name = "iter-ckpt.pth"
               /\ Len(written[i].path.digits) >= 6
               /\ written[i].kth < 1000000 => Len(written[i].path.digits) = 6
               /\ DecimalValue(written[i].path.digits) = written[i].kth
               /\ written[i].kth % G = 0
               /\ (written[i].kth \div G) % save_interval = 0
            \/ /\ written[i].path = FinalPath
               /\ i = Len(written)
               /\ tpc = "done"
        /\ \A i, j \in 1..Len(written) : i # j => written[i].path # written[j].path
        /\ tpc = "done" => written[Len(written)].path = FinalPath

C7_Witness ==
    /\ trainer = "standard"
    /\ G = 2
    /\ save_interval = 2
    /\ tpc = "done"
    /\ Len(written) = 3
    /\ written[2].path = [name |-> "iter-ckpt.pth", digits |-> <<0, 0, 0, 0, 0, 8>>]

----------------------------------------------------------------------------
(* finetune/adapter.py: get_batch and get_longest_seq_length;                 *)
(* xla/finetune/adapter.py: get_max_seq_length                                *)

\* tokenized examples as scripts/prepare_alpaca.py leaves them: labels are the
\* input_ids with the first `masked` positions (the prompt) set to -1
Example(len, masked) ==
    [input_ids |-> [i \in 1..len |-> i - 1],
     labels |-> [i \in 1..len |-> IF i <= masked THEN -1 ELSE i - 1]]
Examples == { Example(len, m) : len \in 1..MaxSeqLen, m \in 0..1 }
RECURSIVE SeqsUpTo(_, _)
SeqsUpTo(S, n) ==
    IF n = 0 THEN { << >> }
    ELSE LET shorter == SeqsUpTo(S, n - 1) IN
         shorter \cup { Append(q, e) : q \in { r \in shorter : Len(r) = n - 1 }, e \in S }
DataSets == SeqsUpTo(Examples, MaxData) \ { << >> }

\* an Optional[int]: NoInt is None, Some(n) is the integer n
NoInt == << >>
Some(n) == <<n>>
ValueOf(v) == v[1]

\* data[i] with Python's 0-based index
At(seq, i) == seq[i + 1]

\* lengths = [len(d["input_ids"]) for d in data]
Lengths(d) == [i \in 1..Len(d) |-> Len(d[i].input_ids)]

\* max(lengths)
RECURSIVE ListMax(_)
ListMax(l) ==
    IF Len(l) = 1 THEN l[1]
    ELSE LET m == ListMax(Tail(l)) IN IF l[1] >= m THEN l[1] ELSE m

\* lengths.index(v): the scan from the front
RECURSIVE IndexFrom(_, _, _)
IndexFrom(l, v, i) == IF At(l, i) = v THEN i ELSE IndexFrom(l, v, i + 1)
RECURSIVE IndexBackFrom(_, _, _)
IndexBackFrom(l, v, i) == IF At(l, i) = v THEN i ELSE IndexBackFrom(l, v, i - 1)
ListIndexLast(l, v) == IndexBackFrom(l, v, Len(l) - 1)
ListIndex(l, v) == IndexFrom(l, v, 0)

\* get_longest_seq_length(data) -> (longest_seq_length, longest_seq_ix)
GetLongestSeqLength(d) ==
    LET lengths == Lengths(d)
        longest == ListMax(lengths)
    IN <<longest, ListIndex(lengths, longest)>>

\* override_max_seq_length of xla/finetune/adapter.py
override_max_seq_length == NoInt
\* get_max_seq_length(data) -> (max_seq_length, longest_seq_length, longest_seq_ix)
GetMaxSeqLength(d) ==
    LET lengths == Lengths(d)
        longest == ListMax(lengths)
    IN <<IF override_max_seq_length # NoInt THEN ValueOf(override_max_seq_length) ELSE longest,
         longest, ListIndex(lengths, longest)>>

\* pad_right(x, pad_id): torch.cat((x, torch.full((max_len - len(x),), pad_id)))
PadRightZero(row, pad_id, max_len) == row \o [i \in 1..(max_len - Len(row)) |-> 0]
PadRight(row, pad_id, max_len) == row \o [i \in 1..(max_len - Len(row)) |-> pad_id]

\* row[:n]
Truncate(row, n) == SubSeq(row, 1, Min(n, Len(row)))

\* Python truth value of an Optional[int]
Truthy(v) == v # NoInt /\ ValueOf(v) # 0

\* get_batch after the draw of ix: (x, y)
GetBatchOf(d, indices, cap) ==
    LET input_ids == [r \in 1..Len(indices) |-> At(d, indices[r]).input_ids]
        labels == [r \in 1..Len(indices) |-> At(d, indices[r]).labels]
        max_len == ListMax([r \in 1..Len(indices) |-> Len(input_ids[r])])
        px == [r \in 1..Len(indices) |-> PadRight(input_ids[r], 0, max_len)]
        py == [r \in 1..Len(indices) |-> PadRight(labels[r], -1, max_len)]
    IN IF Truthy(cap)
       THEN <<[r \in 1..Len(indices) |-> Truncate(px[r], ValueOf(cap))],
              [r \in 1..Len(indices) |-> Truncate(py[r], ValueOf(cap))]>>
       ELSE <<px, py>>

InitBatch ==
    /\ FeedIdle
    /\ ProcIdle
    /\ V2Idle
    /\ GenIdle
    /\ MergeIdle
    /\ TrainIdle
    /\ SetupIdle
    /\ data \in DataSets
    /\ micro_batch_size \in 1..MaxMicroBatch
    /\ max_seq_length \in {NoInt} \cup { Some(n) : n \in 1..MaxSeqLen }
    /\ longest_seq_length = 0
    /\ longest_seq_ix = 0
    /\ ix = << >>
    /\ x = << >>
    /\ y = << >>
    /\ bpc = "init"

\* train, line 182: longest_seq_length, longest_seq_ix = get_longest_seq_length(train_data)
GetLongest ==
    /\ bpc = "init"
    /\ longest_seq_length' = GetLongestSeqLength(data)[1]
    /\ longest_seq_ix' = GetLongestSeqLength(data)[2]
    /\ bpc' = "ready"
    /\ UNCHANGED <<data, micro_batch_size, max_seq_length, ix, x, y>>
    /\ UNCHANGED notBatch

\* get_batch(fabric, data, micro_batch_size, max_seq_length, forced), with forced
\* None or longest_seq_ix; ix = torch.randint(len(data), (micro_batch_size,))
GetBatch ==
    /\ bpc \in {"ready", "batch"}
    /\ \E drawn \in [1..micro_batch_size -> 0..(Len(data) - 1)] :
       \E forced \in {NoInt, Some(longest_seq_ix)} :
        /\ ix' = IF forced # NoInt THEN [drawn EXCEPT ![1] = ValueOf(forced)] ELSE drawn
        /\ x' = GetBatchOf(data, ix', max_seq_length)[1]
        /\ y' = GetBatchOf(data, ix', max_seq_length)[2]
    /\ bpc' = "batch"
    /\ UNCHANGED <<data, micro_batch_size, max_seq_length, longest_seq_length, longest_seq_ix>>
    /\ UNCHANGED notBatch

NextBatch ==
    \/ GetLongest
    \/ GetBatch

SpecBatch == InitBatch /\ [][NextBatch]_vars

----------------------------------------------------------------------------
(* Claims about get_batch and get_longest_seq_length, checked under SpecBatch *)

C9_LongestIsFirstMaximum ==
    bpc \in {"ready", "batch"} =>
        /\ \A j \in 1..Len(data) : Len(data[j].input_ids) <= longest_seq_length
        /\ longest_seq_ix \in 0..(Len(data) - 1)
        /\ Len(data[longest_seq_ix + 1].input_ids) = longest_seq_length
        /\ \A j \in 1..longest_seq_ix : Len(data[j].input_ids) < longest_seq_length
        /\ GetMaxSeqLength(data) = <<longest_seq_length, longest_seq_length, longest_seq_ix>>

C9_Witness ==
    /\ bpc = "ready"
    /\ Len(data) = 2
    /\ Len(data[1].input_ids) = 2
    /\ Len(data[2].input_ids) = 2
    /\ longest_seq_length = 2
    /\ longest_seq_ix = 0

----------------------------------------------------------------------------
(* finetune/adapter.py: setup and the start of main                           *)

\* strings that the checks take apart are sequences of their segments:
\* "bf16-mixed" is <<"bf16", "mixed">>, "bnb.nf4-dq" is <<"bnb", "nf4-dq">>;
\* None (and the empty string) is the empty sequence
NoString == << >>
Precisions == { <<"16", "true">>, <<"bf16", "true">>, <<"32", "true">>, <<"64", "true">>,
                <<"16", "mixed">>, <<"bf16", "mixed">> }
QuantizeModes == { <<"bnb", q>> : q \in {"nf4", "nf4-dq", "fp4", "fp4-dq", "int8-training"} }

\* get_default_supported_precision(training=True)
GetDefaultSupportedPrecision(bf16) ==
    IF bf16 THEN <<"bf16", "mixed">> ELSE <<"16", "mixed">>

\* "mixed" in precision
IsMixed(p) == \E i \in 1..Len(p) : p[i] = "mixed"
\* quantize.startswith("bnb.")
StartsWithBnb(q) == Len(q) >= 1 /\ q[1] = "bnb"
\* the keys of the dtype dictionary of line 61
DtypeKeys == { <<"16", "true">>, <<"bf16", "true">>, <<"32", "true">> }

\* lines 57-63: the exception raised, or "ok"
QuantizeOutcome(q, p) ==
    IF q # NoString /\ StartsWithBnb(q)
    THEN IF IsMixed(p) THEN "ValueError"
         ELSE IF p \notin DtypeKeys THEN "KeyError"
         ELSE "ok"
    ELSE "ok"

\* lines 65-79: the exception raised, or the strategy
StrategyOutcomeUnchecked(d, q) == IF d > 1 THEN "FSDPStrategy" ELSE "auto"
StrategyOutcome(d, q) ==
    IF d > 1
    THEN IF q # NoString THEN "NotImplementedError" ELSE "FSDPStrategy"
    ELSE "auto"

InitSetup ==
    /\ FeedIdle
    /\ ProcIdle
    /\ V2Idle
    /\ GenIdle
    /\ MergeIdle
    /\ TrainIdle
    /\ BatchIdle
    /\ setup_args \in [precision : Precisions \cup {NoString},
                       quantize : QuantizeModes \cup {NoString},
                       devices : 1..MaxDevices]
    /\ bf16_supported \in BOOLEAN
    /\ checkpoint_dir_valid \in BOOLEAN
    /\ precision = setup_args.precision
    /\ plugins = << >>
    /\ strategy = "none"
    /\ spc = "setup"
    /\ setup_error = "none"
    /\ done = {}

\* line 55: precision = precision or get_default_supported_precision(training=True)
SetupResolve ==
    /\ spc = "setup"
    /\ precision' = IF precision # NoString THEN precision
                    ELSE GetDefaultSupportedPrecision(bf16_supported)
    /\ spc' = "quantize"
    /\ UNCHANGED <<setup_args, bf16_supported, checkpoint_dir_valid, plugins, strategy,
                   setup_error, done>>
    /\ UNCHANGED notSetup

\* lines 57-63
SetupQuantize ==
    /\ spc = "quantize"
    /\ LET r == QuantizeOutcome(setup_args.quantize, precision) IN
       IF r # "ok"
       THEN /\ spc' = "error"
            /\ setup_error' = r
            /\ UNCHANGED <<precision, plugins>>
       ELSE /\ spc' = "strategy"
            /\ IF setup_args.quantize # NoString
               THEN /\ plugins' = <<"BitsandbytesPrecision", Tail(setup_args.quantize), precision>>
                    /\ precision' = NoString
               ELSE UNCHANGED <<precision, plugins>>
            /\ UNCHANGED setup_error
    /\ UNCHANGED <<setup_args, bf16_supported, checkpoint_dir_valid, strategy, done>>
    /\ UNCHANGED notSetup

\* lines 65-79
SetupStrategy ==
    /\ spc = "strategy"
    /\ LET r == StrategyOutcome(setup_args.devices, setup_args.quantize) IN
       IF r = "NotImplementedError"
       THEN /\ spc' = "error"
            /\ setup_error' = r
            /\ UNCHANGED strategy
       ELSE /\ spc' = "fabric"
            /\ strategy' = r
            /\ UNCHANGED setup_error
    /\ UNCHANGED <<setup_args, bf16_supported, checkpoint_dir_valid, precision, plugins, done>>
    /\ UNCHANGED notSetup

\* lines 81-82: the logger and the Fabric object
SetupFabric ==
    /\ spc = "fabric"
    /\ done' = done \cup {"fabric_created"}
    /\ spc' = "launch"
    /\ UNCHANGED <<setup_args, bf16_supported, checkpoint_dir_valid, precision, plugins,
                   strategy, setup_error>>
    /\ UNCHANGED notSetup

\* lines 84-101: fabric.launch(main, ...)
SetupLaunch ==
    /\ spc = "launch"
    /\ done' = done \cup {"main_launched"}
    /\ spc' = "main"
    /\ UNCHANGED <<setup_args, bf16_supported, checkpoint_dir_valid, precision, plugins,
                   strategy, setup_error>>
    /\ UNCHANGED notSetup

\* main, lines 114-131: the checkpoint directory is validated, then the output
\* directory is made, the data is loaded and the model is constructed
MainPrepare ==
    /\ spc = "main"
    /\ IF ~checkpoint_dir_valid
       THEN /\ spc' = "error"
            /\ setup_error' = "invalid_checkpoint_dir"
            /\ UNCHANGED done
       ELSE /\ spc' = "train"
            /\ done' = done \cup {"out_dir_created", "data_loaded", "model_constructed"}
            /\ UNCHANGED setup_error
    /\ UNCHANGED <<setup_args, bf16_supported, checkpoint_dir_valid, precision, plugins, strategy>>
    /\ UNCHANGED notSetup

NextSetup ==
    \/ SetupResolve
    \/ SetupQuantize
    \/ SetupStrategy
    \/ SetupFabric
    \/ SetupLaunch
    \/ MainPrepare

SpecSetup == InitSetup /\ [][NextSetup]_vars

----------------------------------------------------------------------------
(* Claims about setup, checked under SpecSetup *)

\* the precision the call resolves to: the explicit one or the hardware default
ResolvedPrecision ==
    IF setup_args.precision # NoString THEN setup_args.precision
    ELSE IF bf16_supported THEN <<"bf16", "mixed">> ELSE <<"16", "mixed">>
QuantizationRequested == setup_args.quantize # NoString
MustBeRejected ==
    /\ QuantizationRequested
    /\ \/ ResolvedPrecision[2] = "mixed"
       \/ setup_args.devices > 1

\* C10: a setup call that requests quantization with a mixed resolved precision
\* or with more than one device ends in a fatal error before the Fabric object
\* is created and before main is launched (no model, no output directory, no
\* data); a call without quantization is never rejected by these two rules.
C10_QuantizationRejectedEarly ==
    /\ MustBeRejected =>
        /\ done = {}
        /\ spc \in {"setup", "quantize", "strategy", "error"}
        /\ spc = "strategy" => StrategyOutcome(setup_args.devices, setup_args.quantize) = "NotImplementedError"
        /\ spc = "error" => setup_error \in {"ValueError", "KeyError", "NotImplementedError"}
        /\ (spc = "error" /\ ResolvedPrecision[2] = "mixed") => setup_error = "ValueError"
    /\ ~QuantizationRequested => setup_error \notin {"ValueError", "KeyError", "NotImplementedError"}
    /\ (~QuantizationRequested /\ spc = "error") =>
        /\ setup_error = "invalid_checkpoint_dir"
        /\ {"fabric_created", "main_launched"} \subseteq done

C10_Witness ==
    /\ setup_args.quantize = <<"bnb", "nf4">>
    /\ setup_args.precision = <<"bf16", "true">>
    /\ setup_args.devices = 2
    /\ spc = "error"
    /\ setup_error = "NotImplementedError"
    /\ plugins = <<"BitsandbytesPrecision", <<"nf4">>, <<"bf16", "true">>>>
    /\ done = {}

----------------------------------------------------------------------------
(* generate_adapter.py: main                                                  *)

\* a text is a sequence of pieces: the marker "### Response:", a blank, a word
Marker == "### Response:"
Blank == " "
Pieces == {Marker, Blank, "word"}
Texts == UNION { [1..n -> Pieces] : n \in 0..MaxText }

\* str.split(sep): the parts between the occurrences of sep, in order
RECURSIVE Split(_, _)
Split(text, sep) ==
    IF \A i \in 1..Len(text) : text[i] # sep THEN <<text>>
    ELSE LET first == CHOOSE i \in 1..Len(text) :
                          text[i] = sep /\ \A j \in 1..(i - 1) : text[j] # sep
         IN <<SubSeq(text, 1, first - 1)>> \o Split(SubSeq(text, first + 1, Len(text)), sep)

\* str.strip(): without the leading and the trailing blanks
RECURSIVE Strip(_)
Strip(text) ==
    IF Len(text) = 0 THEN text
    ELSE IF text[1] = Blank THEN Strip(Tail(text))
    ELSE IF text[Len(text)] = Blank THEN Strip(SubSeq(text, 1, Len(text) - 1))
    ELSE text

\* names of the parameters of StableLM(config) with the adapter
GenGatingFactor == <<"attn", "gating_factor">>
GenAdapterWte == <<"attn", "adapter_wte", "weight">>
GenModelKeys == {WteWeight, AttnWeight, GenGatingFactor, GenAdapterWte}

\* adapter checkpoints: the adapter parameters, with or without a base parameter
AdapterCheckpoints ==
    { (GenGatingFactor :> g) @@ (GenAdapterWte :> 8) : g \in 6..7 }
    \cup { (GenGatingFactor :> g) @@ (WteWeight :> 9) : g \in 6..7 }

\* model.load_state_dict(sd, strict=False): every name of sd that the model has
\* takes the value of sd, the other parameters keep theirs
LoadNonStrictKeepsOld(m, sd) ==
    [k \in DOMAIN m |-> IF k \in DOMAIN sd /\ m[k] = 0 THEN sd[k] ELSE m[k]]
LoadNonStrict(m, sd) ==
    [k \in DOMAIN m |-> IF k \in DOMAIN sd THEN sd[k] ELSE m[k]]

InitGenerate ==
    /\ FeedIdle
    /\ ProcIdle
    /\ V2Idle
    /\ MergeIdle
    /\ TrainIdle
    /\ BatchIdle
    /\ SetupIdle
    /\ pretrained_dir_valid \in BOOLEAN
    /\ pretrained_checkpoint \in
           IF pretrained_dir_valid
           THEN { PretrainedWeights(p) : p \in { q \in PretrainedDirs :
                                                   "lit_model.pth" \in PretrainedFiles(q) } }
           ELSE {EmptyDict}
    /\ adapter_checkpoint \in AdapterCheckpoints
    /\ model = << >>
    /\ output = << >>
    /\ decoded = << >>
    /\ gpc = "main"
    /\ gen_error = "none"
    /\ stdout = << >>
    /\ stderr = << >>

\* lines 46-62: check_valid_checkpoint_dir, Fabric, and the model built under
\* EmptyInitOnDevice (its parameters hold storage that was never written;
\* 0 stands for the unwritten value)
GenBuild ==
    /\ gpc = "main"
    /\ IF ~pretrained_dir_valid
       THEN /\ gpc' = "error"
            /\ gen_error' = "invalid_checkpoint_dir"
            /\ UNCHANGED <<model, stderr>>
       ELSE /\ model' = [k \in GenModelKeys |-> 0]
            /\ stderr' = Append(stderr, "Loading model ...")
            /\ gpc' = "load_pretrained"
            /\ UNCHANGED gen_error
    /\ UNCHANGED <<pretrained_dir_valid, pretrained_checkpoint,
                   adapter_checkpoint, output, decoded, stdout>>
    /\ UNCHANGED notGen

\* line 67: model.load_state_dict(pretrained_checkpoint, strict=False)
GenLoadPretrained ==
    /\ gpc = "load_pretrained"
    /\ model' = LoadNonStrict(model, pretrained_checkpoint)
    /\ gpc' = "load_adapter"
    /\ UNCHANGED <<pretrained_dir_valid, pretrained_checkpoint,
                   adapter_checkpoint, output, decoded, gen_error,
                   stdout, stderr>>
    /\ UNCHANGED notGen

\* lines 69-71: model.load_state_dict(adapter_checkpoint, strict=False)
GenLoadAdapter ==
    /\ gpc = "load_adapter"
    /\ model' = LoadNonStrict(model, adapter_checkpoint)
    /\ stderr' = Append(stderr, "Time to load model")
    /\ gpc' = "generate"
    /\ UNCHANGED <<pretrained_dir_valid, pretrained_checkpoint,
                   adapter_checkpoint, output, decoded, gen_error, stdout>>
    /\ UNCHANGED notGen

\* lines 73-93: generate(...) and output = tokenizer.decode(output); the text
\* depends on the model and on the sampling
GenDecode ==
    /\ gpc = "generate"
    /\ \E text \in Texts :
        /\ output' = text
        /\ decoded' = text
    /\ gpc' = "split"
    /\ UNCHANGED <<pretrained_dir_valid, pretrained_checkpoint,
                   adapter_checkpoint, model, gen_error, stdout, stderr>>
    /\ UNCHANGED notGen

\* lines 94-95: output = output.split("### Response:")[1].strip(); print(output)
GenSplitPrint ==
    /\ gpc = "split"
    /\ LET parts == Split(output, Marker) IN
       IF Len(parts) < 2
       THEN /\ gpc' = "error"
            /\ gen_error' = "IndexError"
            /\ UNCHANGED <<output, stdout>>
       ELSE /\ output' = Strip(parts[2])
            /\ stdout' = Append(stdout, output')
            /\ gpc' = "report"
            /\ UNCHANGED gen_error
    /\ UNCHANGED <<pretrained_dir_valid, pretrained_checkpoint,
                   adapter_checkpoint, model, decoded, stderr>>
    /\ UNCHANGED notGen

\* lines 97-99: the timing report
GenReport ==
    /\ gpc = "report"
    /\ stderr' = Append(stderr, "Time for inference")
    /\ gpc' = "done"
    /\ UNCHANGED <<pretrained_dir_valid, pretrained_checkpoint,
                   adapter_checkpoint, model, output, decoded,
                   gen_error, stdout>>
    /\ UNCHANGED notGen

NextGenerate ==
    \/ GenBuild
    \/ GenLoadPretrained
    \/ GenLoadAdapter
    \/ GenDecode
    \/ GenSplitPrint
    \/ GenReport

SpecGenerate == InitGenerate /\ [][NextGenerate]_vars

----------------------------------------------------------------------------
(* Claims about generate_adapter.py, checked under SpecGenerate *)

HasMarker(text) == \E i \in 1..Len(text) : text[i] = Marker

\* C11: when the decoded output does not contain "### Response:", main does not
\* end in an out-of-range error: it goes on to its timing report, having
\* printed the raw decoded text.
C11_MissingMarkerIsNotFatal ==
    (gpc \in {"error", "report", "done"} /\ pretrained_dir_valid /\ ~HasMarker(decoded)) =>
        /\ gen_error # "IndexError"
        /\ gpc # "error"
        /\ stdout = <<decoded>>

----------------------------------------------------------------------------
(* lit_parrot/adapter_v2.py *)

\* line 22: the substrings of adapter_v2_state_from_state_dict
state_substrings == <<"adapter_wte", "gating_factor", "adapter_scale", "adapter_bias">>

\* line 17: the substrings of mark_only_adapter_v2_as_trainable
trainable_substrings ==
    <<"adapter_wte", "gating_factor", "adapter_scale", "adapter_bias", "norm_1", "norm_2", "ln_f">>

Range(seq) == { seq[i] : i \in 1..Len(seq) }

\* a parameter name is a sequence of segments (joined by dots in the program),
\* here one segment or two; "weight" is a segment that contains none of the
\* substrings
V2Segments == Range(trainable_substrings) \cup {"weight"}
V2Names == { <<a>> : a \in V2Segments } \cup (V2Segments \X V2Segments)

\* s in name
Contains(name, s) == \E i \in 1..Len(name) : name[i] = s

\* any(s in name for s in substrings)
AnyIn(name, substrings) == \E j \in 1..Len(substrings) : Contains(name, substrings[j])

\* lines 20-24: {name: param for name, param in state_dict.items() if any(...)}
adapter_v2_state_from_state_dict_trainable(sd) ==
    [name \in { k \in DOMAIN sd : AnyIn(k, trainable_substrings) } |-> sd[name]]
adapter_v2_state_from_state_dict(sd) ==
    [name \in { k \in DOMAIN sd : AnyIn(k, state_substrings) } |-> sd[name]]

\* lines 13-18: param.requires_grad = any(s in name for s in substrings)
mark_only_adapter_v2_as_trainable(names) ==
    [name \in names |-> AnyIn(name, trainable_substrings)]

\* the mappings of at most MaxParams names to values
V2NameSets == { Range(q) : q \in UNION { [1..n -> V2Names] : n \in 0..MaxParams } }
V2StateDicts == UNION { [names -> 1..2] : names \in V2NameSets }

InitV2 ==
    /\ FeedIdle
    /\ ProcIdle
    /\ MergeIdle
    /\ TrainIdle
    /\ BatchIdle
    /\ SetupIdle
    /\ GenIdle
    /\ v2_state_dict \in V2StateDicts
    /\ v2_passed = v2_state_dict
    /\ v2_returned = << >>
    /\ v2_requires_grad = [name \in DOMAIN v2_state_dict |-> TRUE]
    /\ v2_called = {}

\* a call of mark_only_adapter_v2_as_trainable on the model of these parameters
V2Mark ==
    /\ "mark" \notin v2_called
    /\ v2_requires_grad' = mark_only_adapter_v2_as_trainable(DOMAIN v2_state_dict)
    /\ v2_called' = v2_called \cup {"mark"}
    /\ UNCHANGED <<v2_state_dict, v2_passed, v2_returned>>
    /\ UNCHANGED notV2

\* a call of adapter_v2_state_from_state_dict on the state dict
V2State ==
    /\ "state" \notin v2_called
    /\ v2_returned' = adapter_v2_state_from_state_dict(v2_state_dict)
    /\ v2_called' = v2_called \cup {"state"}
    /\ UNCHANGED <<v2_state_dict, v2_passed, v2_requires_grad>>
    /\ UNCHANGED notV2

NextV2 ==
    \/ V2Mark
    \/ V2State

SpecV2 == InitV2 /\ [][NextV2]_vars

----------------------------------------------------------------------------
(* Claims about lit_parrot/adapter_v2.py, checked under SpecV2 *)

AdapterMarkers == {"adapter_wte", "gating_factor", "adapter_scale", "adapter_bias"}
NormMarkers == {"norm_1", "norm_2", "ln_f"}
HasAdapterMarker(name) == \E i \in 1..Len(name) : name[i] \in AdapterMarkers
HasNormMarker(name) == \E i \in 1..Len(name) : name[i] \in NormMarkers

\* C12: adapter_v2_state_from_state_dict returns exactly the names that contain
\* one of the four adapter markers, each with the value passed, and leaves the
\* mapping passed as it was; a name matched only by a normalization marker is
\* not returned although mark_only_adapter_v2_as_trainable marks it trainable,
\* and every returned name is marked trainable.
C12_AdapterV2StateIsAdapterSubset ==
    /\ v2_state_dict = v2_passed
    /\ "state" \in v2_called =>
        /\ DOMAIN v2_returned = { name \in DOMAIN v2_passed : HasAdapterMarker(name) }
        /\ \A name \in DOMAIN v2_returned : v2_returned[name] = v2_passed[name]
        /\ \A name \in DOMAIN v2_passed :
               (HasNormMarker(name) /\ ~HasAdapterMarker(name)) =>
                   /\ name \notin DOMAIN v2_returned
                   /\ "mark" \in v2_called => v2_requires_grad[name]
        /\ "mark" \in v2_called =>
               \A name \in DOMAIN v2_returned : v2_requires_grad[name]

C12_Witness ==
    /\ v2_called = {"mark", "state"}
    /\ \E name \in DOMAIN v2_passed :
           /\ HasNormMarker(name) /\ ~HasAdapterMarker(name)
           /\ v2_requires_grad[name]
           /\ name \notin DOMAIN v2_returned
    /\ \E name \in DOMAIN v2_returned : HasNormMarker(name)

----------------------------------------------------------------------------
(* The two commands that load a base checkpoint and an overlay checkpoint:   *)
(* scripts/merge_lora.py and generate_adapter.py                             *)

InitOverlay == InitMerge \/ InitGenerate

NextOverlay == NextMerge \/ NextGenerate

SpecOverlay == InitOverlay /\ [][NextOverlay]_vars

\* the parameter of the model that a name of a checkpoint loads into
LoadsInto(k, name) == k = name \/ StripLinear(k) = name

\* the model m holds, for each name of the overlay, the value of the overlay,
\* and for each name of the base alone, the value of the base
OverlayOnBase(m, base, overlay) ==
    /\ \A name \in DOMAIN overlay :
           \A k \in DOMAIN m : LoadsInto(k, name) => m[k] = overlay[name]
    /\ \A name \in (DOMAIN base) \ (DOMAIN overlay) :
           \A k \in DOMAIN m :
               (LoadsInto(k, name) /\ k \notin DOMAIN overlay) => m[k] = base[name]

\* C13: once the base checkpoint and the overlay checkpoint are loaded, every
\* parameter named in the overlay holds the overlay's value and every parameter
\* named in the base alone holds the base's value, in generate_adapter.py
\* (after its second load_state_dict) and in merge_lora.py (after its
\* load_state_dict); before the second load of generate_adapter.py the model
\* holds the base's values.
C13_OverlayAfterBase ==
    /\ gpc = "load_adapter" =>
           \A name \in (DOMAIN pretrained_checkpoint) \cap (DOMAIN model) :
               model[name] = pretrained_checkpoint[name]
    /\ gpc \in {"generate", "split", "report", "done"} \/ gen_error = "IndexError" =>
           OverlayOnBase(model, pretrained_checkpoint, adapter_checkpoint)
    /\ loaded # EmptyDict => OverlayOnBase(loaded.model, loaded.base, loaded.overlay)

C13_Witness ==
    \/ /\ gpc = "generate"
       /\ WteWeight \in DOMAIN adapter_checkpoint
       /\ model[WteWeight] = adapter_checkpoint[WteWeight]
       /\ model[WteWeight] # pretrained_checkpoint[WteWeight]
       /\ model[AttnWeight] = pretrained_checkpoint[AttnWeight]
    \/ /\ loaded # EmptyDict
       /\ WteWeight \in DOMAIN loaded.overlay
       /\ loaded.model[WteWeight] = loaded.overlay[WteWeight]
       /\ loaded.model[WteWeight] # loaded.base[WteWeight]
       /\ loaded.model[AttnLinearWeight] = loaded.base[AttnWeight]

----------------------------------------------------------------------------
(* finetune/adapter.py: train, run by one process per device                 *)

\* the ranks of the run
Ranks == 0..(devices - 1)

\* the configurations of a multi-process run: every process gets the same
\* arguments
ProcConfigs ==
    { [devices |-> d,
       eval_interval |-> e,
       train_args |-> [global_batch_size |-> g * d, micro_batch_size |-> 1,
                       save_interval |-> sv, epochs |-> 1, epoch_size |-> n * d]] :
        d \in 1..MaxProcs, e \in 1..MaxProcInterval, g \in 1..MaxProcAccum,
        sv \in 1..MaxProcInterval, n \in 1..MaxProcIters }

\* a collective operation (gradient synchronisation, fabric.barrier) completes
\* once every process has entered it
AllArrivedAny(pcs, where) == \E r \in DOMAIN pcs : pcs[r] = where
AllArrived(pcs, where) == \A r \in DOMAIN pcs : pcs[r] = where

InitProcs ==
    /\ FeedIdle
    /\ MergeIdle
    /\ BatchIdle
    /\ SetupIdle
    /\ GenIdle
    /\ V2Idle
    /\ trainer = "standard"
    /\ \E c \in ProcConfigs :
        /\ devices = c.devices
        /\ train_args = c.train_args
        /\ eval_interval = c.eval_interval
    /\ tpc = "idle"
    /\ iter_num = 0
    /\ step_count = 0
    /\ is_accumulating = FALSE
    /\ kth = 0
    /\ order = << >>
    /\ val_steps = << >>
    /\ written = << >>
    /\ opt_steps = 0
    /\ sched_steps = 0
    /\ training = TRUE
    /\ kv_cache = FALSE
    /\ grads = {}
    /\ applied = << >>
    /\ val_return = "none"
    /\ ppc = [r \in Ranks |-> "main"]
    /\ p_iter_num = [r \in Ranks |-> 0]
    /\ p_step_count = [r \in Ranks |-> 0]
    /\ p_is_accumulating = [r \in Ranks |-> FALSE]
    /\ p_log = [r \in Ranks |-> << >>]

\* lines 181-196: train up to its loop (the sanity-check validate included)
ProcStart(r) ==
    /\ ppc[r] = "main"
    /\ p_step_count' = [p_step_count EXCEPT ![r] = 0]
    /\ ppc' = [ppc EXCEPT ![r] = "loop"]
    /\ UNCHANGED <<p_iter_num, p_is_accumulating, p_log>>
    /\ UNCHANGED notProc

\* lines 198-215: the next iteration: get_batch, is_accumulating, forward and
\* backward; when the iteration is not accumulating, backward synchronises the
\* gradients, a collective operation the process waits in
ProcForwardBackward(r) ==
    /\ ppc[r] = "loop"
    /\ IF p_iter_num[r] < max_iters
       THEN /\ p_iter_num' = [p_iter_num EXCEPT ![r] = p_iter_num[r] + 1]
            /\ p_is_accumulating' =
                   [p_is_accumulating EXCEPT ![r] = IsAccumulating(trainer, p_iter_num'[r], G)]
            /\ ppc' = [ppc EXCEPT ![r] = IF p_is_accumulating'[r] THEN "step" ELSE "sync"]
       ELSE /\ ppc' = [ppc EXCEPT ![r] = "final"]
            /\ UNCHANGED <<p_iter_num, p_is_accumulating>>
    /\ UNCHANGED <<p_step_count, p_log>>
    /\ UNCHANGED notProc

\* the gradient synchronisation of line 215 completes
ProcSyncComplete ==
    /\ \E r \in Ranks : ppc[r] = "sync"
    /\ AllArrived(ppc, "sync")
    /\ ppc' = [r \in Ranks |-> IF ppc[r] = "sync" THEN "step" ELSE ppc[r]]
    /\ UNCHANGED <<p_iter_num, p_step_count, p_is_accumulating, p_log>>
    /\ UNCHANGED notProc

\* lines 217-237: optimizer.step() ... step_count += 1, and the logging
ProcStep(r) ==
    /\ ppc[r] = "step"
    /\ p_step_count' = [p_step_count EXCEPT ![r] =
                           IF p_is_accumulating[r] THEN p_step_count[r] ELSE p_step_count[r] + 1]
    /\ ppc' = [ppc EXCEPT ![r] = "eval"]
    /\ UNCHANGED <<p_iter_num, p_is_accumulating, p_log>>
    /\ UNCHANGED notProc

\* lines 239-241: the test of the eval interval; validate starts
ProcValidate(r) ==
    /\ ppc[r] = "eval"
    /\ IF EvalDue(p_is_accumulating[r], p_step_count[r], eval_interval)
       THEN /\ p_log' = [p_log EXCEPT ![r] = Append(p_log[r], <<"validate", p_iter_num[r]>>)]
            /\ ppc' = [ppc EXCEPT ![r] = "validating"]
       ELSE /\ ppc' = [ppc EXCEPT ![r] = "save"]
            /\ UNCHANGED p_log
    /\ UNCHANGED <<p_iter_num, p_step_count, p_is_accumulating>>
    /\ UNCHANGED notProc

\* lines 241-244: validate returns and the process calls fabric.barrier()
ProcBarrier(r) ==
    /\ ppc[r] = "validating"
    /\ p_log' = [p_log EXCEPT ![r] = Append(p_log[r], <<"barrier", p_iter_num[r]>>)]
    /\ ppc' = [ppc EXCEPT ![r] = "barrier"]
    /\ UNCHANGED <<p_iter_num, p_step_count, p_is_accumulating>>
    /\ UNCHANGED notProc

\* fabric.barrier() returns in every process
ProcBarrierComplete ==
    /\ \E r \in Ranks : ppc[r] = "barrier"
    /\ AllArrived(ppc, "barrier")
    /\ ppc' = [r \in Ranks |-> IF ppc[r] = "barrier" THEN "save" ELSE ppc[r]]
    /\ UNCHANGED <<p_iter_num, p_step_count, p_is_accumulating, p_log>>
    /\ UNCHANGED notProc

\* lines 245-247: the test of the save interval; save_adapter_checkpoint starts
ProcSave(r) ==
    /\ ppc[r] = "save"
    /\ IF SaveDue(p_is_accumulating[r], p_step_count[r], save_interval)
       THEN /\ p_log' = [p_log EXCEPT ![r] = Append(p_log[r], <<"save", p_iter_num[r]>>)]
            /\ ppc' = [ppc EXCEPT ![r] = "saving"]
       ELSE /\ ppc' = [ppc EXCEPT ![r] = "loop"]
            /\ UNCHANGED p_log
    /\ UNCHANGED <<p_iter_num, p_step_count, p_is_accumulating>>
    /\ UNCHANGED notProc

\* line 247: save_adapter_checkpoint returns
ProcSaved(r) ==
    /\ ppc[r] = "saving"
    /\ ppc' = [ppc EXCEPT ![r] = "loop"]
    /\ UNCHANGED <<p_iter_num, p_step_count, p_is_accumulating, p_log>>
    /\ UNCHANGED notProc

\* lines 159-165: train returned; the final checkpoint
ProcFinal(r) ==
    /\ ppc[r] = "final"
    /\ ppc' = [ppc EXCEPT ![r] = "done"]
    /\ UNCHANGED <<p_iter_num, p_step_count, p_is_accumulating, p_log>>
    /\ UNCHANGED notProc

NextProcs ==
    \/ \E r \in Ranks : ProcStart(r)
    \/ \E r \in Ranks : ProcForwardBackward(r)
    \/ ProcSyncComplete
    \/ \E r \in Ranks : ProcStep(r)
    \/ \E r \in Ranks : ProcValidate(r)
    \/ \E r \in Ranks : ProcBarrier(r)
    \/ ProcBarrierComplete
    \/ \E r \in Ranks : ProcSave(r)
    \/ \E r \in Ranks : ProcSaved(r)
    \/ \E r \in Ranks : ProcFinal(r)

SpecProcs == InitProcs /\ [][NextProcs]_vars

----------------------------------------------------------------------------
(* Claims about the processes of a run, checked under SpecProcs *)

IsPrefix(a, b) == Len(a) <= Len(b) /\ \A i \in 1..Len(a) : a[i] = b[i]

\* the validations, barrier calls and saves of any two processes are made at
\* the same iteration numbers, in the same order
SameEvents == \A r1 \in DOMAIN p_log : \A r2 \in DOMAIN p_log :
                  IsPrefix(p_log[r1], p_log[r2]) \/ IsPrefix(p_log[r2], p_log[r1])

\* a process that waits at a barrier (or in a gradient synchronisation) is not
\* left there: some process can still move
NobodyStuck == (\E r \in DOMAIN ppc : ppc[r] \in {"barrier", "sync"}) =>
                   \/ \E r \in DOMAIN ppc : ppc[r] \notin {"barrier", "sync", "done"}
                   \/ AllArrived(ppc, "barrier")
                   \/ AllArrived(ppc, "sync")

\* when every process is done, all made the same calls
SameCallsAtEnd == (ppc # << >> /\ AllArrived(ppc, "done")) =>
                      \A r1 \in DOMAIN p_log : \A r2 \in DOMAIN p_log : p_log[r1] = p_log[r2]

\* process r has reached the eval/save boundary (line 239) of iteration k
ReachedBoundary(r, k) ==
    \/ p_iter_num[r] > k
    \/ p_iter_num[r] = k /\ ppc[r] \in {"eval", "validating", "barrier", "save", "saving",
                                         "loop", "final", "done"}

\* process r is through the backward pass (line 215) of iteration k
PastBackwardOf(r, k) ==
    \/ p_iter_num[r] > k
    \/ p_iter_num[r] = k /\ ppc[r] \notin {"sync"}

\* process r is through the validation pass of iteration k, if it makes one
PastValidationOf(r, k) ==
    \/ p_iter_num[r] > k
    \/ p_iter_num[r] = k /\ ppc[r] \in {"barrier", "save", "saving", "loop", "final", "done"}

\* process r made a validation pass in its current iteration
Validated(r) == \E i \in 1..Len(p_log[r]) : p_log[r][i] = <<"validate", p_iter_num[r]>>

\* C14 as stated: all processes validate, call the barrier and save at the same
\* iteration numbers, no process is left waiting at a barrier, and no process
\* starts a validation pass or a checkpoint save for an iteration while another
\* process has not yet reached that iteration's eval/save boundary.
C14_BoundariesReachedSimultaneously ==
    /\ SameEvents
    /\ NobodyStuck
    /\ SameCallsAtEnd
    /\ \A r \in DOMAIN ppc : ppc[r] \in {"validating", "saving"} =>
           \A q \in DOMAIN ppc : ReachedBoundary(q, p_iter_num[r])

\* C14 amended: all processes validate, call the barrier and save at the same
\* iteration numbers, no process is left waiting at a barrier, and no process
\* starts a validation pass or a checkpoint save for an iteration before every
\* process is through the backward pass of that iteration; no process starts
\* the save of an iteration in which it validated before every process is
\* through that validation pass.
C14_LockStep ==
    /\ SameEvents
    /\ NobodyStuck
    /\ SameCallsAtEnd
    /\ \A r \in DOMAIN ppc : ppc[r] \in {"validating", "saving"} =>
           \A q \in DOMAIN ppc : PastBackwardOf(q, p_iter_num[r])
    /\ \A r \in DOMAIN ppc : (ppc[r] = "saving" /\ Validated(r)) =>
           \A q \in DOMAIN ppc : PastValidationOf(q, p_iter_num[r])

C14_Witness ==
    /\ devices > 1
    /\ \E r \in DOMAIN ppc : \E q \in DOMAIN ppc :
           /\ ppc[r] = "saving" /\ Validated(r)
           /\ ppc[q] = "save"
           /\ Len(p_log[r]) > Len(p_log[q])
           /\ p_iter_num[r] > 1

----------------------------------------------------------------------------
(* Claims about the model's mode, its cache and its gradients, checked       *)
(* under SpecTrain                                                            *)

\* validate has just returned
ValidateReturned == tpc \in {"init_loop", "barrier"} /\ val_return = "none"

\* C15: in the standard trainer every validate that returns leaves the model in
\* training mode with the key/value cache released; every training
\* forward/backward pass runs in training mode with no cache allocated; the
\* cache exists only between set_kv_cache and clear_kv_cache inside validate.
C15_ValidateRestoresTrainingMode ==
    trainer = "standard" =>
        /\ ValidateReturned => (training /\ ~kv_cache)
        /\ tpc \in {"forward", "step"} => (training /\ ~kv_cache)
        /\ kv_cache => tpc = "val_generating"
        /\ tpc \in {"val_generate", "val_generating", "val_end"} => ~training
        /\ tpc \notin (ValidatePcs \cup {"main", "idle"}) => training

C15_Witness ==
    /\ trainer = "standard"
    /\ tpc = "step"
    /\ kth >= 2
    /\ Len(val_steps) >= 1
    /\ training
    /\ ~kv_cache

\* the backward passes of the i-th accumulation window, each scaled by 1/G
Window(i) == { [iter |-> k, div |-> G] : k \in ((i - 1) * G + 1)..(i * G) }

\* C19: in the standard trainer the gradients are zero at the start of every
\* accumulation window; the i-th optimizer step is applied to the backward
\* passes of iterations (i-1)G+1 .. iG, each scaled by 1/G, and to no other;
\* the gradients are zero throughout every validation pass; the backward passes
\* made after the last optimizer step are in no update when main ends.
C19_GradientsPerWindow ==
    trainer = "standard" =>
        /\ (tpc = "forward" /\ (kth - 1) % G = 0) => grads = {}
        /\ Len(applied) = opt_steps
        /\ \A i \in 1..Len(applied) : applied[i] = Window(i)
        /\ tpc \in (ValidatePcs \cup {"init_loop", "barrier"}) => grads = {}
        /\ tpc \in {"final", "done"} =>
               /\ grads = { [iter |-> k, div |-> G] : k \in (G * Len(applied) + 1)..kth }
               /\ \A i \in 1..Len(applied) : applied[i] \cap grads = {}
               /\ Len(applied) = kth \div G

C19_Witness ==
    /\ trainer = "standard"
    /\ tpc = "done"
    /\ G = 3
    /\ kth = 8
    /\ Len(applied) = 2
    /\ Cardinality(grads) = 2
    /\ Len(val_steps) >= 1

----------------------------------------------------------------------------
(* finetune/adapter.py and xla/finetune/adapter.py: the batches that train   *)
(* and validate build in a run                                                *)

\* eval_iters of xla/finetune/adapter.py
xla_eval_iters == 50
\* max_iters of the sanity-check validate: dataclasses.replace(eval_args, max_iters=2)
sanity_max_iters == 2

FeedExamples == { Example(len, 0) : len \in 1..MaxFeedLen }
FeedTrainSets == SeqsUpTo(FeedExamples, MaxFeedData) \ { << >> }
FeedValSets == { <<e>> : e \in FeedExamples }

\* the row length of a batch
RowLen(rows) == Len(rows[1])

\* min(longest_seq_length, data_args.max_seq_length or float("inf"))
EffectiveMaxSeqLength(longest, cap) ==
    IF Truthy(cap) THEN Min(longest, ValueOf(cap)) ELSE longest

\* the longest_seq_ix argument of get_batch in train:
\* longest_seq_ix if iter_num == 1 else None, resp. if iter_num == 0
ForcedIxNever(t, i, longest_ix) == NoInt
ForcedIx(t, i, longest_ix) ==
    IF i = RangeValue(t, 1) THEN Some(longest_ix) ELSE NoInt

\* ix = torch.randint(...); if longest_seq_ix is not None: ix[0] = longest_seq_ix
ForceSlot(drawn, forced) ==
    IF forced # NoInt THEN [drawn EXCEPT ![1] = ValueOf(forced)] ELSE drawn

\* get_batch of the xla trainer: torch.full((n,), ...) raises for a negative n
XlaPadFails(d, indices, longest) ==
    \E r \in 1..Len(indices) : longest - Len(At(d, indices[r]).input_ids) < 0
XlaGetBatchOf(d, indices, longest) ==
    <<[r \in 1..Len(indices) |-> PadRight(At(d, indices[r]).input_ids, 0, longest)],
      [r \in 1..Len(indices) |-> PadRight(At(d, indices[r]).labels, -1, longest)]>>

\* the number of iterations followed: in the xla trainer through the first
\* validation pass
FeedHorizon ==
    IF f_trainer = "xla"
    THEN Min(xla_max_iters(1), xla_eval_interval * xla_gradient_accumulation_iters + MaxFeedIters)
    ELSE MaxFeedIters

InitFeed ==
    /\ MergeIdle
    /\ TrainIdle
    /\ BatchIdle
    /\ SetupIdle
    /\ GenIdle
    /\ V2Idle
    /\ ProcIdle
    /\ f_trainer \in {"standard", "xla"}
    /\ train_data \in FeedTrainSets
    /\ val_data \in FeedValSets
    /\ f_micro_batch_size \in
           IF f_trainer = "xla" THEN {xla_micro_batch_size} ELSE 1..MaxFeedBatch
    /\ f_max_seq_length \in
           IF f_trainer = "xla" THEN {NoInt}
           ELSE {NoInt} \cup { Some(n) : n \in 1..MaxFeedLen }
    /\ f_G \in IF f_trainer = "xla" THEN {xla_gradient_accumulation_iters} ELSE 1..MaxFeedAccum
    /\ f_eval_interval \in IF f_trainer = "xla" THEN {xla_eval_interval} ELSE 1..MaxFeedInterval
    /\ f_eval_iters \in IF f_trainer = "xla" THEN {xla_eval_iters} ELSE 1..MaxEvalIters
    /\ f_longest_seq_length = 0
    /\ f_longest_seq_ix = 0
    /\ model_max_seq_length = 0
    /\ fpc = "main"
    /\ f_iter_num = 0
    /\ f_kth = 0
    /\ f_step_count = 0
    /\ val_k = 0
    /\ val_iters = 0
    /\ f_source = "none"
    /\ f_forced = NoInt
    /\ f_ix = << >>
    /\ f_x = << >>
    /\ f_y = << >>
    /\ first_len = 0
    /\ f_error = "none"

\* train up to its loop: the longest training example, model.max_seq_length,
\* and in the standard trainer the call of the sanity-check validate
FeedTrainStart ==
    /\ fpc = "main"
    /\ IF f_trainer = "xla"
       THEN LET r == GetMaxSeqLength(train_data) IN
            /\ model_max_seq_length' = r[1]
            /\ f_longest_seq_length' = r[2]
            /\ f_longest_seq_ix' = r[3]
            /\ fpc' = "loop"
            /\ UNCHANGED <<val_k, val_iters>>
       ELSE LET r == GetLongestSeqLength(train_data) IN
            /\ f_longest_seq_length' = r[1]
            /\ f_longest_seq_ix' = r[2]
            /\ model_max_seq_length' = EffectiveMaxSeqLength(r[1], f_max_seq_length)
            /\ fpc' = "validate"
            /\ val_k' = 0
            /\ val_iters' = sanity_max_iters
    /\ f_step_count' = 0
    /\ UNCHANGED <<f_trainer, train_data, val_data, f_micro_batch_size, f_max_seq_length, f_G,
                   f_eval_interval, f_eval_iters, f_iter_num, f_kth, f_source, f_forced,
                   f_ix, f_x, f_y, first_len, f_error>>
    /\ UNCHANGED notFeed

\* validate: one turn of its loop: get_batch on val_data and model(input_ids)
FeedValidateBatch ==
    /\ fpc = "validate"
    /\ val_k < val_iters
    /\ \E drawn \in [1..f_micro_batch_size -> 0..(Len(val_data) - 1)] :
        /\ f_ix' = drawn
        /\ IF f_trainer = "xla"
           THEN IF XlaPadFails(val_data, drawn, f_longest_seq_length)
                THEN /\ f_error' = "negative_size"
                     /\ fpc' = "error"
                     /\ UNCHANGED <<f_x, f_y>>
                ELSE /\ f_x' = XlaGetBatchOf(val_data, drawn, f_longest_seq_length)[1]
                     /\ f_y' = XlaGetBatchOf(val_data, drawn, f_longest_seq_length)[2]
                     /\ UNCHANGED <<f_error, fpc>>
           ELSE /\ f_x' = GetBatchOf(val_data, drawn, f_max_seq_length)[1]
                /\ f_y' = GetBatchOf(val_data, drawn, f_max_seq_length)[2]
                /\ UNCHANGED <<f_error, fpc>>
    /\ val_k' = val_k + 1
    /\ f_source' = "val"
    /\ f_forced' = NoInt
    /\ UNCHANGED <<f_trainer, train_data, val_data, f_micro_batch_size, f_max_seq_length, f_G,
                   f_eval_interval, f_eval_iters, f_longest_seq_length, f_longest_seq_ix,
                   model_max_seq_length, f_iter_num, f_kth, f_step_count, val_iters, first_len>>
    /\ UNCHANGED notFeed

\* validate after its loop, up to its return
FeedValidateReturn ==
    /\ fpc = "validate"
    /\ val_k = val_iters
    /\ fpc' = "loop"
    /\ UNCHANGED <<f_trainer, train_data, val_data, f_micro_batch_size, f_max_seq_length, f_G,
                   f_eval_interval, f_eval_iters, f_longest_seq_length, f_longest_seq_ix,
                   model_max_seq_length, f_iter_num, f_kth, f_step_count, val_k, val_iters,
                   f_source, f_forced, f_ix, f_x, f_y, first_len, f_error>>
    /\ UNCHANGED notFeed

\* one iteration of train up to its test of the eval interval: get_batch on
\* train_data, forward and backward, the optimizer step, and the call of
\* validate when it is due
FeedIteration ==
    /\ fpc = "loop"
    /\ f_kth < FeedHorizon
    /\ f_kth' = f_kth + 1
    /\ f_iter_num' = RangeValue(f_trainer, f_kth + 1)
    /\ f_forced' = ForcedIx(f_trainer, f_iter_num', f_longest_seq_ix)
    /\ \E drawn \in [1..f_micro_batch_size -> 0..(Len(train_data) - 1)] :
        LET indices == ForceSlot(drawn, f_forced')
            batch == IF f_trainer = "xla"
                     THEN XlaGetBatchOf(train_data, indices, f_longest_seq_length)
                     ELSE GetBatchOf(train_data, indices, f_max_seq_length)
        IN /\ f_ix' = indices
           /\ IF f_trainer = "xla" /\ XlaPadFails(train_data, indices, f_longest_seq_length)
              THEN /\ f_error' = "negative_size"
                   /\ fpc' = "error"
                   /\ UNCHANGED <<f_x, f_y, first_len, f_step_count, val_k, val_iters>>
              ELSE /\ f_x' = batch[1]
                   /\ f_y' = batch[2]
                   /\ first_len' = IF f_kth = 0 THEN RowLen(batch[1]) ELSE first_len
                   /\ LET acc == IsAccumulating(f_trainer, f_iter_num', f_G) IN
                      /\ f_step_count' = IF acc THEN f_step_count ELSE f_step_count + 1
                      /\ IF EvalDue(acc, f_step_count', f_eval_interval)
                         THEN /\ fpc' = "validate"
                              /\ val_k' = 0
                              /\ val_iters' = f_eval_iters
                         ELSE UNCHANGED <<fpc, val_k, val_iters>>
                   /\ UNCHANGED f_error
    /\ f_source' = "train"
    /\ UNCHANGED <<f_trainer, train_data, val_data, f_micro_batch_size, f_max_seq_length, f_G,
                   f_eval_interval, f_eval_iters, f_longest_seq_length, f_longest_seq_ix,
                   model_max_seq_length>>
    /\ UNCHANGED notFeed

\* the loop ends
FeedEnd ==
    /\ fpc = "loop"
    /\ f_kth >= FeedHorizon
    /\ fpc' = "done"
    /\ UNCHANGED <<f_trainer, train_data, val_data, f_micro_batch_size, f_max_seq_length, f_G,
                   f_eval_interval, f_eval_iters, f_longest_seq_length, f_longest_seq_ix,
                   model_max_seq_length, f_iter_num, f_kth, f_step_count, val_k, val_iters,
                   f_source, f_forced, f_ix, f_x, f_y, first_len, f_error>>
    /\ UNCHANGED notFeed

NextFeed ==
    \/ FeedTrainStart
    \/ FeedValidateBatch
    \/ FeedValidateReturn
    \/ FeedIteration
    \/ FeedEnd

SpecFeed == InitFeed /\ [][NextFeed]_vars

----------------------------------------------------------------------------
(* Claims about the batches of a run, checked under SpecFeed *)

\* a batch has been built (and none failed)
HasBatch == f_source # "none" /\ f_x # << >>

\* C16: in the xla trainer every batch, of training data and of validation
\* data, has input rows and label rows of exactly the longest training-sequence
\* length, and get_batch never fails because of the length of an example.
C16_XlaBatchesHaveOneShape ==
    f_trainer = "xla" =>
        /\ f_error = "none"
        /\ HasBatch =>
               /\ \A r \in 1..Len(f_x) : Len(f_x[r]) = f_longest_seq_length
               /\ \A r \in 1..Len(f_y) : Len(f_y[r]) = f_longest_seq_length

\* C17: in the standard trainer the first training batch has the longest
\* training example in slot 0; no other training batch and no validation batch
\* is built with a forced slot 0; no later training batch has longer rows than
\* the first.
C17_LongestExampleFirst ==
    f_trainer = "standard" =>
        /\ (f_source = "train" /\ f_kth = 1) =>
               /\ f_forced = Some(f_longest_seq_ix)
               /\ At(f_ix, 0) = GetLongestSeqLength(train_data)[2]
               /\ Len(At(train_data, At(f_ix, 0)).input_ids) = ListMax(Lengths(train_data))
               /\ first_len = RowLen(f_x)
        /\ (f_source = "train" /\ f_kth > 1) => f_forced = NoInt
        /\ f_source = "val" => f_forced = NoInt
        /\ (f_source = "train" /\ f_kth >= 1) => RowLen(f_x) <= first_len

C17_Witness ==
    /\ f_trainer = "standard"
    /\ f_source = "train"
    /\ f_kth = 2
    /\ f_forced = NoInt
    /\ At(f_ix, 0) # f_longest_seq_ix
    /\ RowLen(f_x) < first_len

\* C18: in the standard trainer every batch passed to the model, in training
\* iterations, in the sanity-check validation and in in-loop validation, has a
\* row length of at most model.max_seq_length, the minimum of the longest
\* training example length and the configured max_seq_length.
C18_BatchesFitModelMaxSeqLength ==
    (f_trainer = "standard" /\ fpc # "main") =>
        /\ model_max_seq_length =
               (IF f_max_seq_length = NoInt THEN ListMax(Lengths(train_data))
                ELSE Min(ListMax(Lengths(train_data)), ValueOf(f_max_seq_length)))
        /\ HasBatch => RowLen(f_x) <= model_max_seq_length

====
